---- MODULE Spec2Model ----
(***************************************************************************)
(* Prediction ledger, top-3 picks, reconciliation and rankings caches of   *)
(* the hit-score ranking service, modelled from the Python sources.        *)
(* Spec runs the ledger operations one after another, SpecRace interleaves *)
(* the steps of concurrent record calls, SpecCache runs the get-rankings   *)
(* calls of the three cache managers.                                      *)
(*                                                                         *)
(* Files are modelled by their JSON content.  A JSON object keeps the      *)
(* insertion order of its keys, and the code iterates over it, so an       *)
(* object keyed by player id is a sequence of entries with distinct        *)
(* player_id.  Hit scores are rounded to 3 decimals by the code and are    *)
(* held here as integers in thousandths (2.5 is 2500).  JSON null is Null. *)
(* The descriptive fields of an entry that are only copied (player_name,   *)
(* team, position, batting_avg, opposing_pitcher, pitcher_hand) travel     *)
(* with player_id and are not repeated.                                    *)
(***************************************************************************)
EXTENDS Integers, Sequences, FiniteSets, TLC

VARIABLES
    today,      \* date.today() as a day number
    ledger,     \* data/prediction_history.json : date -> entries
    top3,       \* data/top_3_picks_history.json : date -> picks
    last,       \* the call that ran last: its arguments and its return value
    callers,    \* concurrent _auto_record_predictions calls: position and locals
    rankings_cache, \* data/rankings_cache.json and data/last_update.json
    simple_cache,   \* data/simple_rankings_cache.json
    daily_cache,    \* data/daily_player_cache.json and data/last_daily_update.json
    matchup_cache,  \* data/hourly_matchup_cache.json and data/last_matchup_update.json
    answer,     \* the get-rankings call that ran last and what it returned
    served,     \* the cache managers that have returned a non-empty table
    now,        \* datetime.now() in ticks of the backup timestamp
    backups,    \* data/backups : timestamp -> the files of the folder
    guard,      \* the run of daily_verification.py: position and results
    request,    \* MLBDataFetcher._make_request: attempts, waits and result
    score,      \* the calculate_hit_score call that ran last: row and result
    slow,       \* the slow partition's clock, update stamp and last access
    tiers,      \* both partitions and DataCache on a clock of minutes
    ranked,     \* the ranked table built last: its inputs and its rows
    store       \* one cache file, the callers saving it and the load made last

ledgerVars == <<ledger, top3>>
raceVars == <<callers>>
cacheVars == <<rankings_cache, simple_cache, daily_cache, matchup_cache, answer, served>>
guardVars == <<now, backups, guard>>
auxVars == <<request, score, slow, tiers, ranked, store>>
vars == <<today, ledger, top3, last, callers, rankings_cache, simple_cache,
          daily_cache, matchup_cache, answer, served, now, backups, guard,
          request, score, slow, tiers, ranked, store>>

(***************************************************************************)
(* Bounds of the model                                                     *)
(***************************************************************************)
NumPlayers == 4
NumCallers == 2
NumTeams == 2
ScoreLevels == 3
ScoreStep == 100
MaxDay == 2
MaxAtBats == 3

Players == 1..NumPlayers
Dates == 1..MaxDay
Callers == 1..NumCallers
Teams == 1..NumTeams

(***************************************************************************)
(* Program constants                                                       *)
(***************************************************************************)
MinScore == 2500
TopN == 3
HttpOk == 200

Null == -1

(***************************************************************************)
(* Ordered JSON objects keyed by player id                                 *)
(***************************************************************************)
Range(s) == {s[i] : i \in 1..Len(s)}

Pids(entries) == {entries[i].player_id : i \in 1..Len(entries)}

HasPid(entries, p) == \E i \in 1..Len(entries) : entries[i].player_id = p

EntryOf(entries, p) ==
    entries[CHOOSE i \in 1..Len(entries) : entries[i].player_id = p]

\* d[key] = value of a Python dict: a new key is appended, an existing key
\* keeps its place and takes the new value
DictPut(entries, e) ==
    IF HasPid(entries, e.player_id)
    THEN [i \in 1..Len(entries) |->
            IF entries[i].player_id = e.player_id THEN e ELSE entries[i]]
    ELSE Append(entries, e)

\* sorted(..., key=hit_score, reverse=True) and DataFrame.sort_values(
\* 'hit_score', ascending=False): descending, equal scores keep their order
InsertDesc(sorted, x) ==
    LET k == Cardinality({i \in 1..Len(sorted) : sorted[i].hit_score >= x.hit_score})
    IN  SubSeq(sorted, 1, k) \o <<x>> \o SubSeq(sorted, k + 1, Len(sorted))

RECURSIVE SortDesc(_)
SortDesc(s) ==
    IF s = <<>> THEN <<>>
    ELSE InsertDesc(SortDesc(SubSeq(s, 1, Len(s) - 1)), s[Len(s)])

Take(s, n) == SubSeq(s, 1, IF Len(s) < n THEN Len(s) ELSE n)

(***************************************************************************)
(* Ranked tables: one row per player of the roster, sorted by score.  On a *)
(* given day a player is either below the elite threshold or at their hot  *)
(* score; hot scores tie between some players, differ between others, and  *)
(* one of them is exactly the threshold.                                   *)
(***************************************************************************)
HotScore(p) == MinScore + ScoreStep * ((p + 1) % ScoreLevels)

ColdScore == MinScore - 1

RECURSIVE RosterRows(_, _)
RosterRows(hot, p) ==
    IF p > NumPlayers THEN <<>>
    ELSE <<[player_id |-> p,
            hit_score |-> IF p \in hot THEN HotScore(p) ELSE ColdScore]>>
         \o RosterRows(hot, p + 1)

\* df.sort_values('hit_score', ascending=False) of the scored roster
TableOf(hot) == SortDesc(RosterRows(hot, 1))

Tables == {TableOf(hot) : hot \in SUBSET Players}

(***************************************************************************)
(* recordIfAbsent: _auto_record_predictions and _record_top_3_picks        *)
(***************************************************************************)
\* faulty variant: a row exactly at the threshold is left out
ElitePlayersStrict(table, min_score) ==
    SelectSeq(table, LAMBDA row : row.hit_score > min_score)

\* rankings_df[rankings_df['hit_score'] >= min_score]
ElitePlayers(table, min_score) ==
    SelectSeq(table, LAMBDA row : row.hit_score >= min_score)

\* faulty variant: the outcome fields start at zero instead of None
PredictionZeroed(row, d) ==
    [player_id      |-> row.player_id,
     hit_score      |-> row.hit_score,
     predicted_date |-> d,
     actual_hits    |-> 0,
     actual_at_bats |-> 0,
     got_hit        |-> "false"]

Prediction(row, d) ==
    [player_id      |-> row.player_id,
     hit_score      |-> row.hit_score,
     predicted_date |-> d,
     actual_hits    |-> Null,
     actual_at_bats |-> Null,
     got_hit        |-> "null"]

WithRank(e, r) ==
    [player_id      |-> e.player_id,
     hit_score      |-> e.hit_score,
     predicted_date |-> e.predicted_date,
     actual_hits    |-> e.actual_hits,
     actual_at_bats |-> e.actual_at_bats,
     got_hit        |-> e.got_hit,
     rank           |-> r]

\* the loop of DataCache._auto_record_predictions over elite_players
RECURSIVE DataCacheDailyPredictions(_, _, _)
DataCacheDailyPredictions(daily_predictions, elite, d) ==
    IF elite = <<>> THEN daily_predictions
    ELSE DataCacheDailyPredictions(
             DictPut(daily_predictions, Prediction(Head(elite), d)), Tail(elite), d)

\* the loop of SimpleMLBRankings._auto_record_predictions: each entry also
\* carries 'rank': len(daily_predictions) + 1 at the time it is built
RECURSIVE SimpleDailyPredictions(_, _, _)
SimpleDailyPredictions(daily_predictions, elite, d) ==
    IF elite = <<>> THEN daily_predictions
    ELSE SimpleDailyPredictions(
             DictPut(daily_predictions,
                     WithRank(Prediction(Head(elite), d), Len(daily_predictions) + 1)),
             Tail(elite), d)

Put(f, d, v) == [x \in (DOMAIN f) \cup {d} |-> IF x = d THEN v ELSE f[x]]

\* SimpleMLBRankings._record_top_3_picks
record_top_3_picks(T3, daily_predictions, d) ==
    IF d \in DOMAIN T3 THEN T3
    ELSE LET sorted_predictions == Take(SortDesc(daily_predictions), TopN)
         IN  Put(T3, d, [i \in 1..Len(sorted_predictions) |->
                             WithRank(sorted_predictions[i], i)])

\* faulty variant: a table without elite rows records the date with no entries
DataCache_auto_record_empty_date(L, T3, d, table) ==
    IF d \in DOMAIN L THEN <<L, T3, "noop">>
    ELSE LET elite_players == ElitePlayers(table, MinScore)
         IN  <<Put(L, d, DataCacheDailyPredictions(<<>>, elite_players, d)), T3,
               IF elite_players = <<>> THEN "empty" ELSE "wrote">>

\* DataCache._auto_record_predictions: <<ledger, top-3, outcome>>
DataCache_auto_record_predictions(L, T3, d, table) ==
    IF d \in DOMAIN L THEN <<L, T3, "noop">>
    ELSE LET elite_players == ElitePlayers(table, MinScore)
         IN  IF elite_players = <<>> THEN <<L, T3, "empty">>
             ELSE <<Put(L, d, DataCacheDailyPredictions(<<>>, elite_players, d)), T3, "wrote">>

\* faulty variant: the "today in predictions_data" return is missing, so a
\* later call replaces the entries of the date
Simple_auto_record_overwrites(L, T3, d, table) ==
    LET elite_players == ElitePlayers(table, MinScore)
    IN  IF elite_players = <<>> THEN <<L, T3, "empty">>
        ELSE LET daily_predictions == SimpleDailyPredictions(<<>>, elite_players, d)
             IN  <<Put(L, d, daily_predictions),
                   record_top_3_picks(T3, daily_predictions, d),
                   IF d \in DOMAIN L THEN "noop" ELSE "wrote">>

\* SimpleMLBRankings._auto_record_predictions(rankings_df, min_score):
\* <<ledger, top-3, outcome>>
auto_record_predictions(L, T3, d, table, min_score) ==
    IF d \in DOMAIN L THEN <<L, T3, "noop">>
    ELSE LET elite_players == ElitePlayers(table, min_score)
         IN  IF elite_players = <<>> THEN <<L, T3, "empty">>
             ELSE LET daily_predictions == SimpleDailyPredictions(<<>>, elite_players, d)
                  IN  <<Put(L, d, daily_predictions),
                        record_top_3_picks(T3, daily_predictions, d),
                        "wrote">>

\* the same with the default min_score = 2.5, as every call in the
\* repository makes it
Simple_auto_record_predictions(L, T3, d, table) ==
    auto_record_predictions(L, T3, d, table, MinScore)

(***************************************************************************)
(* Box-score lookups.  A response is what the schedule and box-score       *)
(* requests made for one player return: the status of the schedule         *)
(* request, whether a box score of the date lists the player among its     *)
(* batters, and the batting line of the first box score that does.         *)
(***************************************************************************)
BattingLines == {<<0, 0>>, <<MaxAtBats, 0>>, <<MaxAtBats, 1>>}

\* the schedule request failed (HTTP 500)
FailedResponse == [status |-> 500, listed |-> FALSE, atBats |-> 0, hits |-> 0]

\* no box score of the date lists the player among its batters
NotListedResponse == [status |-> HttpOk, listed |-> FALSE, atBats |-> 0, hits |-> 0]

\* the player is among the batters of a box score of the date
BoxResponses ==
    {[status |-> HttpOk, listed |-> TRUE, atBats |-> b[1], hits |-> b[2]] :
        b \in BattingLines}

BoolStr(b) == IF b THEN "true" ELSE "false"

\* faulty variant: a player listed in a box score counts as having played
verify_player_at_bats_listed(r) ==
    IF r.status # HttpOk THEN [played |-> FALSE, at_bats |-> 0, hits |-> 0]
    ELSE IF ~r.listed THEN [played |-> FALSE, at_bats |-> 0, hits |-> 0]
    ELSE [played   |-> r.atBats >= 0,
          at_bats  |-> r.atBats,
          hits     |-> r.hits,
          got_hit  |-> IF r.atBats > 0 THEN r.hits > 0 ELSE FALSE]

\* at_bat_verification.verify_player_at_bats
verify_player_at_bats(r) ==
    IF r.status # HttpOk THEN [played |-> FALSE, at_bats |-> 0, hits |-> 0]
    ELSE IF ~r.listed THEN [played |-> FALSE, at_bats |-> 0, hits |-> 0]
    ELSE [played   |-> r.atBats > 0,
          at_bats  |-> r.atBats,
          hits     |-> r.hits,
          got_hit  |-> IF r.atBats > 0 THEN r.hits > 0 ELSE FALSE]

\* PlayerVerification.get_player_game_stats (found = FALSE is None)
get_player_game_stats(r) ==
    IF r.status # HttpOk THEN [found |-> FALSE]
    ELSE IF ~r.listed THEN [found |-> FALSE]
    ELSE [found   |-> TRUE,
          at_bats |-> r.atBats,
          hits    |-> r.hits,
          played  |-> r.atBats > 0]

(***************************************************************************)
(* Reconciliation, at_bat_verification.py                                  *)
(***************************************************************************)
\* faulty variant: the hits are added to the hits already recorded
VerifiedEntryAccumulates(prediction, verification) ==
    [prediction EXCEPT !.actual_hits    = (IF @ = Null THEN 0 ELSE @) + verification.hits,
                       !.actual_at_bats = verification.at_bats,
                       !.got_hit        = BoolStr(verification.got_hit)]

\* the entry kept for a player who had at-bats
VerifiedEntry(prediction, verification) ==
    [prediction EXCEPT !.actual_hits    = verification.hits,
                       !.actual_at_bats = verification.at_bats,
                       !.got_hit        = BoolStr(verification.got_hit)]

\* the loop of update_predictions_with_at_bats over the entries of the date:
\* <<verified_predictions, removed_count>>
RECURSIVE VerifyLoop(_, _, _, _)
VerifyLoop(verified_predictions, removed_count, entries, lookups) ==
    IF entries = <<>> THEN <<verified_predictions, removed_count>>
    ELSE LET prediction == Head(entries)
             verification == verify_player_at_bats(lookups[prediction.player_id])
         IN  IF verification.played
             THEN VerifyLoop(DictPut(verified_predictions,
                                     VerifiedEntry(prediction, verification)),
                             removed_count, Tail(entries), lookups)
             ELSE VerifyLoop(verified_predictions, removed_count + 1,
                             Tail(entries), lookups)

\* max(remaining_players.items(), key=hit_score): the first of the highest
BestPlayer(remaining) ==
    remaining[CHOOSE i \in 1..Len(remaining) :
                /\ \A j \in 1..Len(remaining) : remaining[j].hit_score <= remaining[i].hit_score
                /\ \A j \in 1..(i - 1) : remaining[j].hit_score < remaining[i].hit_score]

\* "Keep verified top 3 players": <<updated_top_3, rank>>
RECURSIVE KeepVerified(_, _, _, _)
KeepVerified(updated_top_3, rank, current_top_3, verified) ==
    IF current_top_3 = <<>> THEN <<updated_top_3, rank>>
    ELSE LET player_id == Head(current_top_3).player_id
         IN  IF HasPid(verified, player_id)
             THEN KeepVerified(DictPut(updated_top_3,
                                       WithRank(EntryOf(verified, player_id), rank)),
                               rank + 1, Tail(current_top_3), verified)
             ELSE KeepVerified(updated_top_3, rank, Tail(current_top_3), verified)

\* "Fill remaining spots from verified predictions"
RECURSIVE FillRemaining(_, _, _)
FillRemaining(updated_top_3, rank, verified) ==
    IF Len(updated_top_3) < TopN /\ Len(verified) > Len(updated_top_3)
    THEN LET remaining_players ==
                 SelectSeq(verified, LAMBDA e : ~HasPid(updated_top_3, e.player_id))
         IN  IF remaining_players # <<>>
             THEN FillRemaining(DictPut(updated_top_3,
                                        WithRank(BestPlayer(remaining_players), rank)),
                                rank + 1, verified)
             ELSE updated_top_3
    ELSE updated_top_3

\* at_bat_verification.update_top_3_after_verification
update_top_3_after_verification(T3, d, verified) ==
    IF d \notin DOMAIN T3 THEN T3
    ELSE LET kept == KeepVerified(<<>>, 1, T3[d], verified)
         IN  Put(T3, d, FillRemaining(kept[1], kept[2], verified))

\* faulty variant: verified_count is taken from the entries of the date as
\* they were loaded
AtBatsFinishStaleCount(L, T3, d, verified_predictions, removed_count) ==
    <<Put(L, d, verified_predictions),
      IF removed_count > 0
      THEN update_top_3_after_verification(T3, d, verified_predictions)
      ELSE T3,
      "counts", Len(L[d]), removed_count>>

\* faulty variant: a date left without entries is taken out of the ledger
AtBatsFinishDropsEmpty(L, T3, d, verified_predictions, removed_count) ==
    <<IF verified_predictions = <<>>
      THEN [x \in (DOMAIN L) \ {d} |-> L[x]]
      ELSE Put(L, d, verified_predictions),
      IF removed_count > 0
      THEN update_top_3_after_verification(T3, d, verified_predictions)
      ELSE T3,
      "counts", Len(verified_predictions), removed_count>>

\* update_predictions_with_at_bats once the loop is done
AtBatsFinish(L, T3, d, verified_predictions, removed_count) ==
    <<Put(L, d, verified_predictions),
      IF removed_count > 0
      THEN update_top_3_after_verification(T3, d, verified_predictions)
      ELSE T3,
      "counts", Len(verified_predictions), removed_count>>

\* faulty variant: a date without predictions gets an empty entry map
update_predictions_creates_date(L, T3, d, lookups) ==
    IF d \notin DOMAIN L THEN <<Put(L, d, <<>>), T3, "none", 0, 0>>
    ELSE LET loop == VerifyLoop(<<>>, 0, L[d], lookups)
         IN  AtBatsFinish(L, T3, d, loop[1], loop[2])

\* at_bat_verification.update_predictions_with_at_bats:
\* <<ledger, top-3, returned, verified_count, removed_count>>
update_predictions_with_at_bats(L, T3, d, lookups) ==
    IF d \notin DOMAIN L THEN <<L, T3, "none", 0, 0>>
    ELSE LET loop == VerifyLoop(<<>>, 0, L[d], lookups)
         IN  AtBatsFinish(L, T3, d, loop[1], loop[2])

(***************************************************************************)
(* Reconciliation, player_verification.py                                  *)
(***************************************************************************)
\* PlayerVerification.verify_predictions: <<verified_predictions, removed_players>>
\* (of a removed player only the player_id is read later)
RECURSIVE verify_predictions(_, _, _, _)
verify_predictions(verified_predictions, removed_players, entries, lookups) ==
    IF entries = <<>> THEN <<verified_predictions, removed_players>>
    ELSE LET prediction == Head(entries)
             player_stats == get_player_game_stats(lookups[prediction.player_id])
         IN  IF player_stats.found /\ player_stats.played
             THEN verify_predictions(
                      DictPut(verified_predictions,
                              [prediction EXCEPT
                                  !.actual_hits    = player_stats.hits,
                                  !.actual_at_bats = player_stats.at_bats,
                                  !.got_hit        = BoolStr(player_stats.hits > 0)]),
                      removed_players, Tail(entries), lookups)
             ELSE verify_predictions(verified_predictions,
                                     Append(removed_players, prediction.player_id),
                                     Tail(entries), lookups)

\* the first of sorted(remaining_players.items(), key=hit_score, reverse=True)
RECURSIVE PVFillRemaining(_, _, _)
PVFillRemaining(updated_top_3, rank, verified) ==
    IF Len(updated_top_3) < TopN /\ Len(verified) >= rank
    THEN LET remaining_players ==
                 SelectSeq(verified, LAMBDA e : ~HasPid(updated_top_3, e.player_id))
         IN  IF remaining_players # <<>>
             THEN PVFillRemaining(DictPut(updated_top_3,
                                          WithRank(SortDesc(remaining_players)[1], rank)),
                                  rank + 1, verified)
             ELSE updated_top_3
    ELSE updated_top_3

\* "Keep verified top 3 players" of PlayerVerification: <<updated_top_3, rank>>
RECURSIVE PVKeepVerified(_, _, _, _, _)
PVKeepVerified(updated_top_3, rank, current_top_3, verified, removed_player_ids) ==
    IF current_top_3 = <<>> THEN <<updated_top_3, rank>>
    ELSE LET player_id == Head(current_top_3).player_id
         IN  IF player_id \notin removed_player_ids /\ HasPid(verified, player_id)
             THEN PVKeepVerified(DictPut(updated_top_3,
                                         WithRank(EntryOf(verified, player_id), rank)),
                                 rank + 1, Tail(current_top_3), verified,
                                 removed_player_ids)
             ELSE PVKeepVerified(updated_top_3, rank, Tail(current_top_3), verified,
                                 removed_player_ids)

\* PlayerVerification._update_top_3_after_verification
PV_update_top_3_after_verification(T3, d, verified, removed_players) ==
    IF d \notin DOMAIN T3 THEN T3
    ELSE LET kept == PVKeepVerified(<<>>, 1, T3[d], verified, Range(removed_players))
         IN  Put(T3, d, PVFillRemaining(kept[1], kept[2], verified))

\* update_predictions_with_verification once the predictions are verified
VerificationFinish(L, T3, d, verified_predictions, removed_players) ==
    <<Put(L, d, verified_predictions),
      IF removed_players # <<>>
      THEN PV_update_top_3_after_verification(T3, d, verified_predictions,
                                              removed_players)
      ELSE T3,
      "counts", Len(verified_predictions), Len(removed_players)>>

\* PlayerVerification.update_predictions_with_verification:
\* <<ledger, top-3, returned, verified_count, removed_count>>
update_predictions_with_verification(L, T3, d, lookups) ==
    IF d \notin DOMAIN L THEN <<L, T3, "error", 0, 0>>
    ELSE LET verification_result == verify_predictions(<<>>, <<>>, L[d], lookups)
         IN  VerificationFinish(L, T3, d, verification_result[1], verification_result[2])

(***************************************************************************)
(* The calls, one action each                                              *)
(***************************************************************************)
\* the lookup for one player reports at-bats > 0
ReportsAtBats(r) == r.status = HttpOk /\ r.listed /\ r.atBats > 0

\* the record of a call.  res is what the operation computed; of the table
\* of a record call, the rows are kept when it wrote and otherwise whether
\* its elite rows differ from the players of the date; of the lookups of a
\* reconciliation, the answers that report at-bats are kept, and whether
\* they are the answers the reconciliation of the same date just before got.
Call(op, d, table, lookups, res) ==
    LET batting == IF op = "reconcile" /\ d \in DOMAIN ledger
                   THEN [p \in {q \in Pids(ledger[d]) : ReportsAtBats(lookups[q])}
                            |-> lookups[p]]
                   ELSE <<>>
    IN  [op |-> op, date |-> d,
         returned |-> res[3],
         table |-> IF res[3] = "wrote" THEN table ELSE <<>>,
         differs |-> /\ res[3] = "noop"
                     /\ Pids(ElitePlayers(table, MinScore)) # Pids(res[1][d]),
         entries_before |-> IF d \in DOMAIN ledger THEN Len(ledger[d]) ELSE 0,
         batting |-> batting,
         repeat |-> /\ op = "reconcile" /\ last.op = "reconcile"
                    /\ last.date = d /\ last.returned = "counts"
                    /\ d \in DOMAIN ledger
                    /\ last.batting = batting,
         verified_count |-> IF Len(res) > 3 THEN res[4] ELSE 0,
         removed_count  |-> IF Len(res) > 3 THEN res[5] ELSE 0]

\* a caller that has not entered _auto_record_predictions
NotCalled ==
    [pc |-> "start", predictions_data |-> <<>>, daily_predictions |-> <<>>,
     top_3_data |-> <<>>, returned |-> "none"]

\* no ledger operation has run, or the last one is not recorded
NoCall ==
    [op |-> "start", date |-> 1, returned |-> "none",
     table |-> <<>>, differs |-> FALSE, entries_before |-> 0,
     batting |-> <<>>, repeat |-> FALSE,
     verified_count |-> 0, removed_count |-> 0]

\* no update stamp, or no access yet
NoStamp == [set |-> FALSE, date |-> 0, hour |-> 0]

\* DailyCacheManager after construction on a first run, at 02:00 of day 1
\* in the reference zone; the zone of the process is not known before it
\* stamps
NoSlow ==
    [date |-> 1, hour |-> 2, zone |-> Null, stamp |-> NoStamp, refreshed_on |-> 0,
     days |-> {}, twice |-> FALSE,
     access |-> [made |-> FALSE, expired |-> FALSE, since |-> 0, date |-> 0, hour |-> 0]]

\* no update stamp with minutes
NoTime == [set |-> FALSE, date |-> 0, hour |-> 0, minute |-> 0]

\* no get-rankings call since the clock last moved
NoAccess ==
    [op |-> "none", force_daily |-> FALSE, force_matchups |-> FALSE,
     expired_daily |-> FALSE, expired_matchups |-> FALSE,
     daily_fetched |-> FALSE, matchup_fetched |-> FALSE, up |-> FALSE, since |-> NoTime]

\* DailyCacheManager and DataCache after construction on a first run, at
\* 02:00 of day 1 in the reference zone
NoTiers ==
    [date |-> 1, hour |-> 2, minute |-> 0, zone |-> Null, daily_stamp |-> NoStamp,
     matchup_stamp |-> NoTime, data_stamp |-> NoTime, data_refreshed |-> NoTime,
     call |-> NoAccess]

\* a cache file written in this many flushes of the file buffer
Chunks == 2

\* the payload a caller saves, as the chunks the file receives; caller 0
\* stands for the refresh that wrote the file before
PayloadOf(w) == [i \in 1..Chunks |-> w]

\* the cache file holds the previous payload, nobody is saving it and
\* nobody has loaded it
StoreStart ==
    [file |-> PayloadOf(0),
     savers |-> [w \in Callers |-> [pc |-> "idle", pos |-> 0]],
     loaded |-> [made |-> FALSE, found |-> FALSE, data |-> <<>>]]

\* no ranked table has been built
NoRanked ==
    [class |-> "none", feed |-> <<>>, input |-> <<>>, all_players |-> <<>>, df |-> <<>>]

\* calculate_hit_score has not been called
NoScore ==
    [class |-> "none", row |-> <<>>, hotness |-> <<0, 1>>, pitcher_factor |-> <<0, 1>>,
     skill_factor |-> <<0, 1>>, hit_score |-> 0]

\* no provider request has been made
NoRequest == [pc |-> "idle", attempt |-> 0, waits |-> <<>>, result |-> "none"]

\* daily_verification.py has not run
GuardIdle ==
    [pc |-> "idle", success |-> TRUE, issues |-> {}, trace |-> <<>>,
     today_absent |-> FALSE, newest_backup |-> "none"]

Init ==
    /\ today = 1
    /\ ledger = <<>>
    /\ top3 = <<>>
    /\ last = NoCall
    /\ callers = [c \in Callers |-> NotCalled]
    /\ rankings_cache = [exists |-> FALSE, rankings |-> <<>>, last_update |-> FALSE]
    /\ simple_cache = [exists |-> FALSE, rankings |-> <<>>]
    /\ daily_cache = [exists |-> FALSE, player_stats |-> <<>>, last_update |-> FALSE]
    /\ matchup_cache = [exists |-> FALSE, pitcher_matchups |-> {},
                        starting_lineups |-> FALSE, last_update |-> FALSE]
    /\ answer = [manager |-> "none", up |-> TRUE, table |-> FALSE, before |-> FALSE]
    /\ served = {}
    /\ now = 0
    /\ backups = <<>>
    /\ guard = GuardIdle
    /\ request = NoRequest
    /\ score = NoScore
    /\ slow = NoSlow
    /\ tiers = NoTiers
    /\ ranked = NoRanked
    /\ store = StoreStart

\* SimpleMLBRankings._auto_record_predictions(rankings_df) on date.today()
RecordSimple(tables) ==
    \E table \in tables :
        \E res \in {Simple_auto_record_predictions(ledger, top3, today, table)} :
            /\ ledger' = res[1]
            /\ top3' = res[2]
            /\ last' = Call("record", today, table, <<>>, res)
            /\ UNCHANGED <<auxVars, guardVars, today, raceVars, cacheVars>>

\* DataCache._auto_record_predictions(rankings_df) on date.today()
RecordDataCache(tables) ==
    \E table \in tables :
        \E res \in {DataCache_auto_record_predictions(ledger, top3, today, table)} :
            /\ ledger' = res[1]
            /\ top3' = res[2]
            /\ last' = Call("record", today, table, <<>>, res)
            /\ UNCHANGED <<auxVars, guardVars, today, raceVars, cacheVars>>

\* the box-score answers the loop over the entries of date d can get
\* (a box-score line for each player, or the requests failing for all,
\* or a date whose box scores list none of them)
LookupsFor(L, d) ==
    IF d \in DOMAIN L
    THEN [Pids(L[d]) -> BoxResponses]
         \cup {[p \in Pids(L[d]) |-> FailedResponse],
               [p \in Pids(L[d]) |-> NotListedResponse]}
    ELSE {<<>>}

\* at_bat_verification.update_predictions_with_at_bats(game_date)
ReconcileAtBats ==
    \E d \in Dates : \E lookups \in LookupsFor(ledger, d) :
        \E res \in {update_predictions_with_at_bats(ledger, top3, d, lookups)} :
            /\ ledger' = res[1]
            /\ top3' = res[2]
            /\ last' = Call("reconcile", d, <<>>, lookups, res)
            /\ UNCHANGED <<auxVars, guardVars, today, raceVars, cacheVars>>

\* PlayerVerification.update_predictions_with_verification(game_date)
ReconcileVerification ==
    \E d \in Dates : \E lookups \in LookupsFor(ledger, d) :
        \E res \in {update_predictions_with_verification(ledger, top3, d, lookups)} :
            /\ ledger' = res[1]
            /\ top3' = res[2]
            /\ last' = Call("reconcile", d, <<>>, lookups, res)
            /\ UNCHANGED <<auxVars, guardVars, today, raceVars, cacheVars>>

Next ==
    \/ RecordSimple(Tables)
    \/ RecordDataCache(Tables)
    \/ ReconcileAtBats
    \/ ReconcileVerification

Spec == Init /\ [][Next]_vars

(***************************************************************************)
(* Concurrent calls of _auto_record_predictions.  A call reads the ledger  *)
(* file, decides on what it read, and later writes the whole file from its *)
(* own copy; calls of other sessions run between these steps.  There is no *)
(* lock around them.                                                       *)
(***************************************************************************)
\* json.load of the file, the "today in predictions_data" return, the elite
\* filter and the loop that builds daily_predictions
LoadPredictions(c, class) ==
    /\ callers[c].pc = "start"
    /\ \E table \in Tables :
          LET elite_players == ElitePlayers(table, MinScore)
          IN  callers' = [callers EXCEPT ![c] =
                  IF today \in DOMAIN ledger
                  THEN [@ EXCEPT !.pc = "done", !.returned = "noop"]
                  ELSE IF elite_players = <<>>
                  THEN [@ EXCEPT !.pc = "done", !.returned = "empty"]
                  ELSE [@ EXCEPT !.pc = "write",
                                 !.predictions_data = ledger,
                                 !.daily_predictions =
                                     IF class = "SimpleMLBRankings"
                                     THEN SimpleDailyPredictions(<<>>, elite_players, today)
                                     ELSE DataCacheDailyPredictions(<<>>, elite_players, today)]]
    /\ UNCHANGED <<auxVars, guardVars, today, ledgerVars, last, cacheVars>>

\* SimpleMLBRankings._auto_record_predictions up to the write
SimpleLoadPredictions(c) ==
    LoadPredictions(c, "SimpleMLBRankings")

\* DataCache._auto_record_predictions up to the write
DataCacheLoadPredictions(c) ==
    LoadPredictions(c, "DataCache")

\* predictions_data[today] = daily_predictions; json.dump(predictions_data)
WritePredictions(c) ==
    /\ callers[c].pc = "write"
    /\ ledger' = Put(callers[c].predictions_data, today, callers[c].daily_predictions)
    /\ callers' = [callers EXCEPT ![c] =
          IF "rank" \in DOMAIN callers[c].daily_predictions[1]
          THEN [@ EXCEPT !.pc = "top3", !.returned = "wrote"]
          ELSE [@ EXCEPT !.pc = "done", !.returned = "wrote"]]
    /\ UNCHANGED <<auxVars, guardVars, today, top3, last, cacheVars>>

\* _record_top_3_picks: json.load of the top-3 file
LoadTop3(c) ==
    /\ callers[c].pc = "top3"
    /\ callers' = [callers EXCEPT ![c] = [@ EXCEPT !.pc = "top3_write",
                                                   !.top_3_data = top3]]
    /\ UNCHANGED <<auxVars, guardVars, today, ledgerVars, last, cacheVars>>

\* _record_top_3_picks: the "today not in top_3_data" write of the copy
WriteTop3(c) ==
    /\ callers[c].pc = "top3_write"
    /\ top3' = IF today \in DOMAIN callers[c].top_3_data THEN top3
               ELSE record_top_3_picks(callers[c].top_3_data,
                                       callers[c].daily_predictions, today)
    /\ callers' = [callers EXCEPT ![c] = [@ EXCEPT !.pc = "done"]]
    /\ UNCHANGED <<auxVars, guardVars, today, ledger, last, cacheVars>>

NextRace ==
    \E c \in Callers :
        \/ SimpleLoadPredictions(c)
        \/ DataCacheLoadPredictions(c)
        \/ WritePredictions(c)
        \/ LoadTop3(c)
        \/ WriteTop3(c)

SpecRace == Init /\ [][NextRace]_vars

(***************************************************************************)
(* The clock.  Time is counted in ticks of the resolution of the backup    *)
(* timestamp ('%Y%m%d_%H%M%S'); the 86400 seconds of a day are DayLen      *)
(* ticks and day 1 starts at tick 0.  Day 0 is a Monday, so day 1 is a     *)
(* Tuesday, and day 1 is the FirstDayOfMonth-th day of its month.          *)
(***************************************************************************)
DayLen == 2

FirstDayOfMonth == 2

LastTick == 3

DateOf(t) == 1 + (t \div DayLen)

\* datetime.weekday(): Monday is 0, Sunday is 6
Weekday(d) == (d + 7) % 7

\* date.day
DayOfMonth(d) == d + FirstDayOfMonth - 1

Tick ==
    /\ now < LastTick
    /\ now' = now + 1
    /\ today' = DateOf(now + 1)
    /\ last' = NoCall
    /\ UNCHANGED <<auxVars, ledgerVars, raceVars, cacheVars, backups, guard>>

(***************************************************************************)
(* Snapshots: DataBackupManager.create_daily_backup.  A folder holds the   *)
(* copies of the four files; a ledger or top-3 file that was never written *)
(* does not exist and is <<>> here, as is its missing copy.                *)
(***************************************************************************)
FileCopy(C) == [exists |-> C.exists, rankings |-> C.rankings]

EmptyFolder ==
    [prediction_history |-> <<>>, top_3_picks_history |-> <<>>,
     simple_rankings_cache |-> [exists |-> FALSE, rankings |-> <<>>],
     rankings_cache |-> [exists |-> FALSE, rankings |-> <<>>]]

\* os.makedirs(backup_folder, exist_ok=True) and the shutil.copy2 loop: a
\* file that exists is copied over whatever the folder holds under its name
create_daily_backup(B, t, L, T3, S, R) ==
    LET backup_folder == IF t \in DOMAIN B THEN B[t] ELSE EmptyFolder
    IN  Put(B, t,
            [prediction_history |->
                 IF L # <<>> THEN L ELSE backup_folder.prediction_history,
             top_3_picks_history |->
                 IF T3 # <<>> THEN T3 ELSE backup_folder.top_3_picks_history,
             simple_rankings_cache |->
                 IF S.exists THEN FileCopy(S) ELSE backup_folder.simple_rankings_cache,
             rankings_cache |->
                 IF R.exists THEN FileCopy(R) ELSE backup_folder.rankings_cache])

(***************************************************************************)
(* The rankings caches.  A feed is what the providers answer during one    *)
(* call: whether the requests succeed, whether games with probable         *)
(* pitchers are scheduled today, which players score at their hot score,   *)
(* and the confirmed starters (none when no lineup is posted; player 0 is  *)
(* a starter who is not on the roster).  These operations do not read the  *)
(* backup folder, and SpecCache does not keep the snapshots its ranking    *)
(* cycles take; SpecGuard and SpecBackup do.                               *)
(***************************************************************************)
CacheHot == {{}, {1}, Players}

CacheStarters == {{}, {0}, {0, 1}}

ProviderDown ==
    [up |-> FALSE, games |-> FALSE, hot |-> {}, starters |-> {}, idle |-> {},
     unannounced |-> {}]

Feeds ==
    {ProviderDown} \cup
    {[up |-> TRUE, games |-> g, hot |-> h, starters |-> st, idle |-> {},
      unannounced |-> {}] :
        g \in BOOLEAN, h \in CacheHot, st \in CacheStarters}

TeamOf(p) == 1 + (p % NumTeams)

\* get_todays_games: the teams that play today, each with or without the
\* probable pitcher it faces; [] when the request fails
get_todays_games(feed) ==
    IF feed.up /\ feed.games
    THEN {[team_id |-> t, pitcher |-> t \notin feed.unannounced] : t \in Teams \ feed.idle}
    ELSE {}

\* get_pitcher_matchups: a dict keyed by the integer team id, with an entry
\* for the teams whose opposing pitcher is in the game
get_pitcher_matchups(games) == {<<"int", g.team_id>> : g \in {h \in games : h.pitcher}}

\* json.dump followed by json.load of a dict: the keys come back as strings
JsonKeys(keys) == {<<"str", k[2]>> : k \in keys}

RECURSIVE RosterStats(_)
RosterStats(p) ==
    IF p > NumPlayers THEN <<>>
    ELSE <<[player_id |-> p, team_id |-> TeamOf(p)]>> \o RosterStats(p + 1)

\* get_hitter_recent_stats: empty when the teams request fails
get_hitter_recent_stats(feed) == IF feed.up THEN RosterStats(1) ELSE <<>>

ScoredRows(hitters, feed) ==
    [i \in 1..Len(hitters) |->
        [player_id |-> hitters[i].player_id,
         hit_score |-> IF hitters[i].player_id \in feed.hot
                       THEN HotScore(hitters[i].player_id) ELSE ColdScore]]

\* RankingCalculator.calculate_rankings: a hitter is skipped when the team
\* id is no key of pitcher_matchups ('TBD') or get_player_splits is None
calculate_rankings(hitter_stats, pitcher_matchups, feed) ==
    SortDesc(ScoredRows(
        SelectSeq(hitter_stats,
                  LAMBDA hitter : /\ <<"int", hitter.team_id>> \in pitcher_matchups
                                  /\ feed.up),
        feed))

\* get_todays_starting_lineups
get_todays_starting_lineups(feed) ==
    IF feed.up /\ feed.games THEN feed.starters ELSE {}

\* MLBDataFetcher.filter_active_players
filter_active_players(rankings_df, feed) ==
    IF rankings_df = <<>> THEN rankings_df
    ELSE LET starter_names == IF feed.up THEN feed.starters ELSE {}
         IN  IF starter_names = {} THEN rankings_df
             ELSE SelectSeq(rankings_df, LAMBDA row : row.player_id \in starter_names)

\* DataCache._load_from_cache: None unless the file holds rows
DataCache_load_from_cache(C) ==
    IF C.exists /\ C.rankings # <<>>
    THEN [found |-> TRUE, df |-> C.rankings]
    ELSE [found |-> FALSE, df |-> <<>>]

\* DataCache._fetch_fresh_data: what it returns and the files after it
DataCache_fetch_fresh_data(C, L, T3, d, feed) ==
    LET pitcher_matchups == get_pitcher_matchups(get_todays_games(feed))
        hitter_stats == get_hitter_recent_stats(feed)
        rankings_df == calculate_rankings(hitter_stats, pitcher_matchups, feed)
        cached_data == DataCache_load_from_cache(C)
        recorded == DataCache_auto_record_predictions(L, T3, d, rankings_df)
        saved == DataCache_auto_record_predictions(recorded[1], recorded[2], d, rankings_df)
    IN  IF hitter_stats # <<>> /\ rankings_df # <<>>
        THEN [found |-> TRUE, df |-> rankings_df,
              cache |-> [exists |-> TRUE, rankings |-> rankings_df, last_update |-> TRUE],
              ledger |-> saved[1], top3 |-> saved[2], backed_up |-> TRUE]
        ELSE [found |-> cached_data.found, df |-> cached_data.df,
              cache |-> C, ledger |-> L, top3 |-> T3, backed_up |-> FALSE]

\* DataCache.get_rankings; refresh is "force_refresh or self._is_cache_expired()"
DataCache_get_rankings(C, L, T3, d, feed, refresh) ==
    LET fresh_data == DataCache_fetch_fresh_data(C, L, T3, d, feed)
        cached_data == DataCache_load_from_cache(C)
    IN  IF refresh /\ fresh_data.found THEN fresh_data
        ELSE IF cached_data.found
        THEN [found |-> TRUE, df |-> cached_data.df,
              cache |-> C, ledger |-> L, top3 |-> T3, backed_up |-> FALSE]
        ELSE fresh_data

\* SimpleMLBRankings.generate_daily_rankings; backed_up tells whether the
\* cycle reached create_daily_backup, which it calls before it records
generate_daily_rankings(S, L, T3, d, feed) ==
    LET games == get_todays_games(feed)
        all_players ==
            IF games = {} THEN <<>>
            ELSE ScoredRows(SelectSeq(get_hitter_recent_stats(feed),
                                      LAMBDA player :
                                          \E game \in games : game.team_id = player.team_id),
                            feed)
        df == SortDesc(filter_active_players(SortDesc(all_players), feed))
        recorded == Simple_auto_record_predictions(L, T3, d, df)
    IN  IF all_players = <<>>
        THEN [df |-> <<>>, cache |-> S, ledger |-> L, top3 |-> T3,
              backed_up |-> FALSE, all_players |-> <<>>]
        ELSE [df |-> df, cache |-> [exists |-> TRUE, rankings |-> df],
              ledger |-> recorded[1], top3 |-> recorded[2], backed_up |-> TRUE,
              all_players |-> SortDesc(all_players)]

\* SimpleMLBRankings.get_rankings
Simple_get_rankings(S, L, T3, d, feed, force_refresh, expired) ==
    IF ~force_refresh /\ S.exists /\ S.rankings # <<>> /\ ~expired
    THEN [df |-> S.rankings, cache |-> S, ledger |-> L, top3 |-> T3,
          backed_up |-> FALSE]
    ELSE generate_daily_rankings(S, L, T3, d, feed)

\* DailyCacheManager.get_daily_player_data; refresh is "force_refresh or
\* self._is_daily_cache_expired()"
get_daily_player_data(D, feed, refresh) ==
    LET hitter_stats == get_hitter_recent_stats(feed)
    IN  IF ~refresh /\ D.exists
        THEN [data |-> D.player_stats, cache |-> D, fetched |-> FALSE]
        ELSE IF hitter_stats # <<>>
        THEN [data |-> hitter_stats,
              cache |-> [exists |-> TRUE, player_stats |-> hitter_stats,
                         last_update |-> TRUE],
              fetched |-> TRUE]
        ELSE [data |-> IF D.exists THEN D.player_stats ELSE <<>>, cache |-> D,
              fetched |-> FALSE]

\* faulty variant: the cached matchups are never used
get_matchup_data_uncached(M, feed, refresh) ==
    LET pitcher_matchups == get_pitcher_matchups(get_todays_games(feed))
        starting_lineups == get_todays_starting_lineups(feed) # {}
    IN  [pitcher_matchups |-> pitcher_matchups,
         starting_lineups |-> starting_lineups,
         cache |-> [exists |-> TRUE,
                    pitcher_matchups |-> JsonKeys(pitcher_matchups),
                    starting_lineups |-> starting_lineups,
                    last_update |-> TRUE],
         fetched |-> TRUE]

\* DailyCacheManager.get_matchup_data; refresh is "force_refresh or
\* self._is_matchup_cache_expired()".  _fetch_matchup_data always builds a
\* dict, which is saved; a cached dict comes from json.load.
get_matchup_data(M, feed, refresh) ==
    LET pitcher_matchups == get_pitcher_matchups(get_todays_games(feed))
        starting_lineups == get_todays_starting_lineups(feed) # {}
    IN  IF ~refresh /\ M.exists
        THEN [pitcher_matchups |-> M.pitcher_matchups,
              starting_lineups |-> M.starting_lineups, cache |-> M,
              fetched |-> FALSE]
        ELSE [pitcher_matchups |-> pitcher_matchups,
              starting_lineups |-> starting_lineups,
              cache |-> [exists |-> TRUE,
                         pitcher_matchups |-> JsonKeys(pitcher_matchups),
                         starting_lineups |-> starting_lineups,
                         last_update |-> TRUE],
              fetched |-> TRUE]

\* faulty variant: a refresh of the player data also refreshes the matchups
get_complete_rankings_coupled(D, M, feed, refresh_daily, refresh_matchups) ==
    LET player_data == get_daily_player_data(D, feed, refresh_daily)
        matchup_data == get_matchup_data(M, feed, refresh_daily \/ refresh_matchups)
        rankings_df == calculate_rankings(player_data.data,
                                          matchup_data.pitcher_matchups, feed)
        filtered_df == filter_active_players(rankings_df, feed)
    IN  IF player_data.data = <<>>
        THEN [df |-> <<>>, daily |-> player_data.cache, matchup |-> M,
              daily_fetched |-> player_data.fetched, matchup_fetched |-> FALSE]
        ELSE [df |-> IF rankings_df # <<>> /\ matchup_data.starting_lineups
                        /\ filtered_df # <<>>
                     THEN filtered_df ELSE rankings_df,
              daily |-> player_data.cache, matchup |-> matchup_data.cache,
              daily_fetched |-> player_data.fetched,
              matchup_fetched |-> matchup_data.fetched]

\* DailyCacheManager.get_complete_rankings (df = <<>> is None)
get_complete_rankings(D, M, feed, refresh_daily, refresh_matchups) ==
    LET player_data == get_daily_player_data(D, feed, refresh_daily)
        matchup_data == get_matchup_data(M, feed, refresh_matchups)
        rankings_df == calculate_rankings(player_data.data,
                                          matchup_data.pitcher_matchups, feed)
        filtered_df == filter_active_players(rankings_df, feed)
    IN  IF player_data.data = <<>>
        THEN [df |-> <<>>, daily |-> player_data.cache, matchup |-> M,
              daily_fetched |-> player_data.fetched, matchup_fetched |-> FALSE]
        ELSE [df |-> IF rankings_df # <<>> /\ matchup_data.starting_lineups
                        /\ filtered_df # <<>>
                     THEN filtered_df ELSE rankings_df,
              daily |-> player_data.cache, matchup |-> matchup_data.cache,
              daily_fetched |-> player_data.fetched,
              matchup_fetched |-> matchup_data.fetched]

\* a cache without a timestamp is expired
RefreshChoices(stamped) == IF stamped THEN BOOLEAN ELSE {TRUE}

\* the record of a get-rankings call: who answered, whether the providers
\* were reachable, whether the answer is a non-empty table, and whether the
\* manager had returned a non-empty table before
Answer(manager, feed, df) ==
    [manager |-> manager, up |-> feed.up, table |-> df # <<>>,
     before |-> manager \in served]

DataCacheGetRankings ==
    \E feed \in Feeds : \E refresh \in RefreshChoices(rankings_cache.last_update) :
        \E res \in {DataCache_get_rankings(rankings_cache, ledger, top3, today,
                                           feed, refresh)} :
            /\ rankings_cache' = res.cache
            /\ ledger' = res.ledger
            /\ top3' = res.top3
            /\ answer' = Answer("DataCache", feed, res.df)
            /\ served' = IF res.df # <<>> THEN served \cup {"DataCache"} ELSE served
            /\ UNCHANGED <<auxVars, guardVars, today, last, raceVars, simple_cache,
                           daily_cache, matchup_cache>>

SimpleGetRankings ==
    \E feed \in Feeds : \E force_refresh \in BOOLEAN :
        \E expired \in RefreshChoices(simple_cache.exists) :
            \E res \in {Simple_get_rankings(simple_cache, ledger, top3, today, feed,
                                            force_refresh, expired)} :
                /\ simple_cache' = res.cache
                /\ ledger' = res.ledger
                /\ top3' = res.top3
                /\ answer' = Answer("SimpleMLBRankings", feed, res.df)
                /\ served' = IF res.df # <<>> THEN served \cup {"SimpleMLBRankings"}
                             ELSE served
                /\ UNCHANGED <<auxVars, guardVars, today, last, raceVars, rankings_cache,
                               daily_cache, matchup_cache>>

DailyCacheGetCompleteRankings ==
    \E feed \in Feeds :
        \E refresh_daily \in RefreshChoices(daily_cache.last_update) :
            \E refresh_matchups \in RefreshChoices(matchup_cache.last_update) :
                \E res \in {get_complete_rankings(daily_cache, matchup_cache, feed,
                                                  refresh_daily, refresh_matchups)} :
                    /\ daily_cache' = res.daily
                    /\ matchup_cache' = res.matchup
                    /\ answer' = Answer("DailyCacheManager", feed, res.df)
                    /\ served' = IF res.df # <<>> THEN served \cup {"DailyCacheManager"}
                                 ELSE served
                    /\ UNCHANGED <<auxVars, guardVars, today, ledgerVars, last, raceVars, rankings_cache,
                                   simple_cache>>

NextCache ==
    \/ DataCacheGetRankings
    \/ SimpleGetRankings
    \/ DailyCacheGetCompleteRankings

SpecCache == Init /\ [][NextCache]_vars

(***************************************************************************)
(* The slow partition over several days.  The wall clock is a date and an  *)
(* hour of the reference zone (America/Chicago).  _set_last_daily_update   *)
(* stamps the naive local time of the process, datetime.now(), whose zone  *)
(* is set by the host: zone is its offset in hours from the reference      *)
(* zone, the same for the whole run.  _is_daily_cache_expired reads the    *)
(* stamp back with cst.localize, as a time of the reference zone.          *)
(***************************************************************************)
SlowDays == 3

BoundaryHour == 3

\* the instants of a day at which the partition is accessed
WallHours == <<2, BoundaryHour, 20>>

\* hosts in the reference zone and in UTC
ServerZones == {0, 6}

\* the providers down, or up with the teams request answering
SlowFeeds == {feed \in Feeds : feed.up => (feed.games /\ feed.hot = {} /\ feed.starters = {})}

\* datetime.now() of a host `zone' hours ahead of the reference zone
LocalNow(date, hour, zone) ==
    IF hour + zone >= 24
    THEN [set |-> TRUE, date |-> date + 1, hour |-> hour + zone - 24]
    ELSE [set |-> TRUE, date |-> date, hour |-> hour + zone]

\* faulty variant: a stamp of an earlier date is expired at any hour
is_daily_cache_expired_at_midnight(stamp, date, hour) ==
    IF ~stamp.set THEN TRUE ELSE date > stamp.date

\* DailyCacheManager._is_daily_cache_expired
is_daily_cache_expired(stamp, date, hour) ==
    IF ~stamp.set THEN TRUE
    ELSE IF date > stamp.date THEN hour >= BoundaryHour
    ELSE FALSE

\* the clock moves to the next instant
SlowTick ==
    /\ \E i \in 1..Len(WallHours) :
          /\ slow.hour = WallHours[i]
          /\ IF i < Len(WallHours)
             THEN slow' = [slow EXCEPT !.hour = WallHours[i + 1]]
             ELSE /\ slow.date < SlowDays
                  /\ slow' = [slow EXCEPT !.date = slow.date + 1, !.hour = WallHours[1]]
    /\ UNCHANGED <<today, ledgerVars, last, raceVars, cacheVars, guardVars, request,
                   score, tiers, ranked, store>>

\* get_daily_player_data(force_refresh) at the current instant
SlowAccess ==
    \E feed \in SlowFeeds : \E force_refresh \in BOOLEAN :
      \E zone \in IF slow.zone = Null THEN ServerZones ELSE {slow.zone} :
        \E expired \in {is_daily_cache_expired(slow.stamp, slow.date, slow.hour)} :
          \E res \in {get_daily_player_data(daily_cache, feed, force_refresh \/ expired)} :
            /\ daily_cache' = res.cache
            /\ slow' =
                 [slow EXCEPT
                    !.zone = zone,
                    !.stamp = IF res.fetched THEN LocalNow(slow.date, slow.hour, zone)
                              ELSE @,
                    !.refreshed_on = IF res.fetched THEN slow.date ELSE @,
                    !.days = IF res.fetched THEN @ \cup {slow.date} ELSE @,
                    !.twice = @ \/ (res.fetched /\ ~force_refresh
                                      /\ slow.date \in slow.days),
                    !.access = [made |-> TRUE, expired |-> expired,
                                since |-> slow.refreshed_on,
                                date |-> slow.date, hour |-> slow.hour]]
            /\ UNCHANGED <<today, ledgerVars, last, raceVars, rankings_cache,
                           simple_cache, matchup_cache, answer, served, guardVars,
                           request, score, tiers, ranked, store>>

NextSlow == SlowTick \/ SlowAccess

SpecSlow == Init /\ [][NextSlow]_vars

(***************************************************************************)
(* Both partitions of DailyCacheManager and the cache of DataCache on a    *)
(* clock of minutes.  A time is a date, an hour and a minute of the        *)
(* reference zone.  The matchup stamp and the time it is compared with are *)
(* both the naive datetime.now() of the host, so the host's zone cancels   *)
(* and both are kept in reference time; the daily stamp and the DataCache  *)
(* stamp are naive local times read back as reference times.               *)
(***************************************************************************)
TierDays == 2

GraceMinutes == 10

TierHours == <<2, BoundaryHour, 4>>

TierMinutes == <<0, 5, GraceMinutes>>

TierFeeds == {feed \in Feeds : feed.hot = {1} /\ feed.starters = {}} \cup {ProviderDown}

Minutes(t) == ((t.date * 24) + t.hour) * 60 + t.minute

\* last_update.replace(minute=0, second=0, microsecond=0) + timedelta(hours=1)
NextHour(stamp) == Minutes([stamp EXCEPT !.minute = 0]) + 60

TimeNow == [set |-> TRUE, date |-> tiers.date, hour |-> tiers.hour, minute |-> tiers.minute]

\* datetime.now() with minutes of a host `zone' hours ahead
LocalTime(t, zone) ==
    [set |-> TRUE, date |-> LocalNow(t.date, t.hour, zone).date,
     hour |-> LocalNow(t.date, t.hour, zone).hour, minute |-> t.minute]

\* DailyCacheManager._is_matchup_cache_expired
is_matchup_cache_expired(stamp, t) ==
    IF ~stamp.set THEN TRUE ELSE Minutes(t) >= NextHour(stamp)

\* DataCache._is_cache_expired
DataCache_is_cache_expired(stamp, t) ==
    IF ~stamp.set THEN TRUE
    ELSE IF t.date > stamp.date /\ t.hour >= BoundaryHour THEN TRUE
    ELSE Minutes(t) >= NextHour(stamp) + GraceMinutes

\* the position after x in the sequence seq, 0 after the last
After(seq, x) ==
    IF \E i \in 1..(Len(seq) - 1) : seq[i] = x
    THEN seq[1 + CHOOSE i \in 1..(Len(seq) - 1) : seq[i] = x]
    ELSE 0

\* the clock moves to the next instant
TiersTick ==
    /\ IF After(TierMinutes, tiers.minute) # 0
       THEN tiers' = [tiers EXCEPT !.minute = After(TierMinutes, tiers.minute),
                                   !.call = NoAccess]
       ELSE IF After(TierHours, tiers.hour) # 0
       THEN tiers' = [tiers EXCEPT !.hour = After(TierHours, tiers.hour),
                                   !.minute = TierMinutes[1], !.call = NoAccess]
       ELSE /\ tiers.date < TierDays
            /\ tiers' = [tiers EXCEPT !.date = tiers.date + 1, !.hour = TierHours[1],
                                      !.minute = TierMinutes[1], !.call = NoAccess]
    /\ UNCHANGED <<today, ledgerVars, last, raceVars, cacheVars, guardVars, request,
                   score, slow, ranked, store>>

\* DailyCacheManager.get_complete_rankings(force_refresh_daily,
\* force_refresh_matchups) at the current instant
TiersCompleteRankings ==
    \E feed \in TierFeeds : \E force_daily \in BOOLEAN : \E force_matchups \in BOOLEAN :
      \E zone \in IF tiers.zone = Null THEN ServerZones ELSE {tiers.zone} :
        \E expired_daily \in {is_daily_cache_expired(tiers.daily_stamp, tiers.date,
                                                      tiers.hour)} :
          \E expired_matchups \in {is_matchup_cache_expired(tiers.matchup_stamp, TimeNow)} :
            \E res \in {get_complete_rankings(daily_cache, matchup_cache, feed,
                                               force_daily \/ expired_daily,
                                               force_matchups \/ expired_matchups)} :
              /\ daily_cache' = res.daily
              /\ matchup_cache' = res.matchup
              /\ tiers' =
                   [tiers EXCEPT
                      !.zone = zone,
                      !.daily_stamp = IF res.daily_fetched
                                      THEN LocalNow(tiers.date, tiers.hour, zone) ELSE @,
                      !.matchup_stamp = IF res.matchup_fetched THEN TimeNow ELSE @,
                      !.call = [op |-> "get_complete_rankings",
                                force_daily |-> force_daily,
                                force_matchups |-> force_matchups,
                                expired_daily |-> expired_daily,
                                expired_matchups |-> expired_matchups,
                                daily_fetched |-> res.daily_fetched,
                                matchup_fetched |-> res.matchup_fetched,
                                up |-> feed.up,
                                since |-> tiers.matchup_stamp]]
              /\ UNCHANGED <<today, ledgerVars, last, raceVars, rankings_cache,
                             simple_cache, answer, served, guardVars, request, score,
                             slow, ranked, store>>

\* DataCache.get_rankings(force_refresh) at the current instant
TiersDataCacheRankings ==
    \E feed \in TierFeeds : \E force_refresh \in BOOLEAN :
      \E zone \in IF tiers.zone = Null THEN ServerZones ELSE {tiers.zone} :
        \E expired \in {DataCache_is_cache_expired(tiers.data_stamp, TimeNow)} :
          \E res \in {DataCache_get_rankings(rankings_cache, ledger, top3, today, feed,
                                              force_refresh \/ expired)} :
            /\ rankings_cache' = res.cache
            /\ ledger' = res.ledger
            /\ top3' = res.top3
            /\ tiers' =
                 [tiers EXCEPT
                    !.zone = zone,
                    !.data_stamp = IF res.backed_up THEN LocalTime(TimeNow, zone) ELSE @,
                    !.data_refreshed = IF res.backed_up THEN TimeNow ELSE @,
                    !.call = [op |-> "get_rankings",
                              force_daily |-> FALSE, force_matchups |-> force_refresh,
                              expired_daily |-> FALSE, expired_matchups |-> expired,
                              daily_fetched |-> FALSE,
                              matchup_fetched |-> res.backed_up,
                              up |-> feed.up,
                              since |-> tiers.data_refreshed]]
            /\ UNCHANGED <<today, last, raceVars, simple_cache, daily_cache,
                           matchup_cache, answer, served, guardVars, request, score, slow, ranked, store>>

NextTiers == TiersTick \/ TiersCompleteRankings

SpecTiers == Init /\ [][NextTiers]_vars

\* DailyCacheManager.get_cache_status() at the current instant
TiersCacheStatus ==
    /\ tiers' = [tiers EXCEPT
                   !.call = [NoAccess EXCEPT
                               !.op = "get_cache_status",
                               !.expired_daily =
                                   is_daily_cache_expired(tiers.daily_stamp, tiers.date,
                                                          tiers.hour),
                               !.expired_matchups =
                                   is_matchup_cache_expired(tiers.matchup_stamp, TimeNow),
                               !.since = tiers.matchup_stamp]]
    /\ UNCHANGED <<today, ledgerVars, last, raceVars, cacheVars, guardVars, request,
                   score, slow, ranked, store>>

NextQuery == TiersTick \/ TiersCompleteRankings \/ TiersCacheStatus

SpecQuery == Init /\ [][NextQuery]_vars

NextHourly == TiersTick \/ TiersDataCacheRankings

SpecHourly == Init /\ [][NextHourly]_vars

(***************************************************************************)
(* Building a ranked table.  The provider lists the hitters in any order;  *)
(* some teams may have no game today, and some may face a pitcher who has  *)
(* not been announced.                                                     *)
(***************************************************************************)
RankFeeds ==
    {[up |-> TRUE, games |-> TRUE, hot |-> h, starters |-> st, idle |-> i,
      unannounced |-> u] :
        h \in {{1}, Players}, st \in CacheStarters, i \in {{}, {1}}, u \in {{}, {2}}}

\* two orders in which the provider may list the same hitters
Orders(hitters) ==
    {hitters, [i \in 1..Len(hitters) |-> hitters[Len(hitters) + 1 - i]]}

\* RankingCalculator.calculate_rankings on the hitters as listed
RankCalculate ==
    /\ \E feed \in RankFeeds : \E hitter_stats \in Orders(get_hitter_recent_stats(feed)) :
          \E df \in {calculate_rankings(hitter_stats,
                                         get_pitcher_matchups(get_todays_games(feed)),
                                         feed)} :
            ranked' = [class |-> "RankingCalculator", feed |-> feed,
                       input |-> [i \in 1..Len(hitter_stats) |-> hitter_stats[i].player_id],
                       all_players |-> df, df |-> df]
    /\ UNCHANGED <<today, ledgerVars, last, raceVars, cacheVars, guardVars, request,
                   score, slow, tiers, store>>

\* SimpleMLBRankings.generate_daily_rankings
RankGenerate ==
    /\ \E feed \in RankFeeds :
          \E res \in {generate_daily_rankings(simple_cache, ledger, top3, today, feed)} :
            /\ simple_cache' = res.cache
            /\ ledger' = res.ledger
            /\ top3' = res.top3
            /\ ranked' = [class |-> "SimpleMLBRankings", feed |-> feed, input |-> <<>>,
                          all_players |-> res.all_players, df |-> res.df]
    /\ UNCHANGED <<today, last, raceVars, rankings_cache, daily_cache, matchup_cache,
                   answer, served, guardVars, request, score, slow, tiers, store>>

NextRank == RankCalculate \/ RankGenerate

SpecRank == Init /\ [][NextRank]_vars

(***************************************************************************)
(* Saving and loading a cache file: _save_daily_cache,                     *)
(* _save_matchup_cache and _save_to_cache all open the file with mode 'w'  *)
(* and json.dump into it; a load is os.path.exists and json.load.  Each    *)
(* saver writes through its own file position.                             *)
(***************************************************************************)
\* a write of one chunk at position pos of the file; a position past the
\* end leaves a hole
WriteAt(file, pos, w) ==
    [i \in 1..(IF pos > Len(file) THEN pos ELSE Len(file)) |->
        IF i = pos THEN w ELSE IF i <= Len(file) THEN file[i] ELSE Null]

\* _load_daily_cache: json.load raises on a file that is empty or cut
\* short, and the load returns None
load_cache(file) ==
    IF Len(file) = Chunks /\ \A i \in 1..Chunks : file[i] # Null
    THEN [made |-> TRUE, found |-> TRUE, data |-> file]
    ELSE [made |-> TRUE, found |-> FALSE, data |-> <<>>]

\* open(cache_file, 'w') truncates the file
SaveOpen(w) ==
    /\ store.savers[w].pc = "idle"
    /\ store' = [store EXCEPT !.file = <<>>,
                              !.savers[w] = [pc |-> "writing", pos |-> 0]]
    /\ UNCHANGED <<today, ledgerVars, last, raceVars, cacheVars, guardVars, request,
                   score, slow, tiers, ranked>>

\* json.dump: the buffer is flushed to the file, one chunk at a time
SaveWrite(w) ==
    /\ store.savers[w].pc = "writing"
    /\ store.savers[w].pos < Chunks
    /\ store' = [store EXCEPT !.file = WriteAt(store.file, store.savers[w].pos + 1, w),
                              !.savers[w].pos = @ + 1]
    /\ UNCHANGED <<today, ledgerVars, last, raceVars, cacheVars, guardVars, request,
                   score, slow, tiers, ranked>>

\* the with block ends
SaveClose(w) ==
    /\ store.savers[w].pc = "writing"
    /\ store.savers[w].pos = Chunks
    /\ store' = [store EXCEPT !.savers[w].pc = "done"]
    /\ UNCHANGED <<today, ledgerVars, last, raceVars, cacheVars, guardVars, request,
                   score, slow, tiers, ranked>>

\* a reader loads the file
LoadCache ==
    /\ store' = [store EXCEPT !.loaded = load_cache(store.file)]
    /\ UNCHANGED <<today, ledgerVars, last, raceVars, cacheVars, guardVars, request,
                   score, slow, tiers, ranked>>

NextSave ==
    \/ \E w \in Callers : SaveOpen(w) \/ SaveWrite(w) \/ SaveClose(w)
    \/ LoadCache

SpecSave == Init /\ [][NextSave]_vars

(***************************************************************************)
(* The integrity sweep: daily_verification.run_daily_verification and      *)
(* DataBackupManager.verify_data_integrity.  An issue is the check that    *)
(* reported it, the severity its message starts with and what it says.     *)
(* The floor of 10 entries and the window of 7 days are scaled to the      *)
(* roster and the calendar of the model.                                   *)
(***************************************************************************)
ExpectedFloor == 2

GapWindow == 2

RecentDates == 7

QualityDates == 3

EliteFloor == 2000

IntegrityDays == 3

MaxGap == 2

Issue(check, severity, text) == [check |-> check, severity |-> severity, text |-> text]

\* sorted(predictions.keys(), reverse=True)[:n]
Newest(L, n) == {d \in DOMAIN L : Cardinality({e \in DOMAIN L : e > d}) < n}

NonElite(entries) == \E i \in 1..Len(entries) : entries[i].hit_score < EliteFloor

\* 1. today's predictions; the file cannot be opened before its first write
CheckToday(L, d) ==
    IF L = <<>> THEN {Issue(1, "CRITICAL", "Cannot read prediction history")}
    ELSE IF d \notin DOMAIN L THEN {Issue(1, "CRITICAL", "No predictions recorded")}
    ELSE IF Len(L[d]) = 0 THEN {Issue(1, "WARNING", "Zero predictions recorded")}
    ELSE IF Len(L[d]) < ExpectedFloor THEN {Issue(1, "WARNING", "Only few predictions recorded")}
    ELSE {}

\* 2. gaps in the last days; 'predictions' is unbound when check 1 could not
\* read the file, and the NameError is caught
CheckGaps(L, d) ==
    IF L = <<>> THEN {Issue(2, "ERROR", "Cannot check for data gaps")}
    ELSE LET last_days == {d - i : i \in 0..(GapWindow - 1)}
             missing_dates == {c \in last_days : c \notin DOMAIN L /\ Weekday(c) \notin {6, 0}}
         IN  IF missing_dates # {} THEN {Issue(2, "WARNING", "Missing predictions")}
             ELSE {}

\* 3. top-3 picks of the newest dates
CheckTop3(L, T3) ==
    IF T3 = <<>> \/ L = <<>> THEN {Issue(3, "ERROR", "Cannot verify Top 3 picks")}
    ELSE IF \E date_key \in Newest(L, RecentDates) : date_key \notin DOMAIN T3
    THEN {Issue(3, "WARNING", "Missing Top 3 picks")}
    ELSE {}

\* 4. data quality of the newest dates
CheckQuality(L) ==
    IF L = <<>> THEN {Issue(4, "ERROR", "Cannot verify data quality")}
    ELSE IF \E date_key \in Newest(L, QualityDates) : NonElite(L[date_key])
    THEN {Issue(4, "WARNING", "Non-elite player")}
    ELSE {}

\* faulty variant: an old newest backup is reported like a missing one
CheckBackupsOldIsCritical(B, t) ==
    IF DOMAIN B = {} THEN {Issue(5, "CRITICAL", "No backups found")}
    ELSE LET latest_backup == CHOOSE b \in DOMAIN B : \A c \in DOMAIN B : c <= b
         IN  IF t - latest_backup > DayLen
             THEN {Issue(5, "CRITICAL", "No recent backup (older than 24 hours)")}
             ELSE {}

\* 5. backups; the constructor of DataBackupManager has made the directory,
\* and 86400 seconds are DayLen ticks
CheckBackups(B, t) ==
    IF DOMAIN B = {} THEN {Issue(5, "CRITICAL", "No backups found")}
    ELSE LET latest_backup == CHOOSE b \in DOMAIN B : \A c \in DOMAIN B : c <= b
         IN  IF t - latest_backup > DayLen
             THEN {Issue(5, "WARNING", "No recent backup (older than 24 hours)")}
             ELSE {}

\* DataBackupManager.verify_data_integrity: the keys of the report that are
\* False.  today.replace(day=today.day-i) raises ValueError on the first two
\* days of a month; the except clause then returns the report as it stands.
verify_data_integrity(L, T3, d) ==
    LET raised == L # <<>> /\ DayOfMonth(d) < IntegrityDays
        recent_dates == {d - i : i \in 0..(IntegrityDays - 1)}
        gap == \E a \in DOMAIN L : \E b \in DOMAIN L :
                   /\ a < b
                   /\ ~\E c \in DOMAIN L : a < c /\ c < b
                   /\ b - a > MaxGap
    IN  (IF L = <<>> THEN {"prediction_history_exists"} ELSE {})
        \cup (IF L = <<>> \/ raised \/ recent_dates \cap DOMAIN L = {}
              THEN {"has_recent_data"} ELSE {})
        \cup (IF L # <<>> /\ ~raised /\ gap THEN {"no_missing_dates"} ELSE {})
        \cup (IF L # <<>> /\ ~raised /\ \E date_key \in DOMAIN L : NonElite(L[date_key])
              THEN {"all_elite_players"} ELSE {})
        \cup (IF raised \/ T3 = <<>> THEN {"top_3_picks_exists"} ELSE {})

\* 6. the integrity report
CheckIntegrity(L, T3, d) ==
    IF verify_data_integrity(L, T3, d) # {}
    THEN {Issue(6, "WARNING", "Failed integrity checks")}
    ELSE {}

\* run_daily_verification: the issues found, and the backup folder after
\* step 7 has taken its snapshot
run_daily_verification(L, T3, S, R, B, t) ==
    [issues |-> CheckToday(L, DateOf(t)) \cup CheckGaps(L, DateOf(t))
                \cup CheckTop3(L, T3) \cup CheckQuality(L)
                \cup CheckBackups(B, t) \cup CheckIntegrity(L, T3, DateOf(t)),
     backups |-> create_daily_backup(B, t, L, T3, S, R)]

(***************************************************************************)
(* The guard: the __main__ block of daily_verification.py.  It sweeps,     *)
(* and when the sweep found an issue it calls auto_fix_issues and sweeps   *)
(* again; the application may run a ranking cycle and the clock may        *)
(* advance between its steps.  guard.trace lists the steps of the run,     *)
(* guard.today_absent and guard.newest_backup describe the files the last  *)
(* sweep looked at.                                                        *)
(***************************************************************************)
GuardFeeds ==
    {ProviderDown} \cup
    {[up |-> TRUE, games |-> TRUE, hot |-> h, starters |-> {}, idle |-> {},
      unannounced |-> {}] : h \in {{1}, Players}}

\* DataBackupManager.auto_record_verification
auto_record_verification(L, d) == L # <<>> /\ d \in DOMAIN L

\* faulty variant: the snapshot is taken at the end of the cycle
CycleBackupAtEnd(res, B, t, L, T3, S, R) ==
    IF res.backed_up
    THEN create_daily_backup(B, t, res.ledger, res.top3, res.cache, R)
    ELSE B

\* the backup folder after a ranking cycle that started on the files given
CycleBackup(res, B, t, L, T3, S, R) ==
    IF res.backed_up THEN create_daily_backup(B, t, L, T3, S, R) ELSE B

\* faulty variant: the ranking cycle is forced whatever the ledger holds
auto_fix_always_cycles(S, L, T3, R, B, t, feed) ==
    LET fresh_rankings == Simple_get_rankings(S, L, T3, DateOf(t), feed, TRUE, TRUE)
    IN  [forced |-> TRUE, cache |-> fresh_rankings.cache,
         ledger |-> fresh_rankings.ledger, top3 |-> fresh_rankings.top3,
         backups |-> CycleBackup(fresh_rankings, B, t, L, T3, S, R)]

\* auto_fix_issues: get_rankings(force_refresh=True) unless today is recorded
auto_fix_issues(S, L, T3, R, B, t, feed) ==
    IF auto_record_verification(L, DateOf(t))
    THEN [forced |-> FALSE, cache |-> S, ledger |-> L, top3 |-> T3, backups |-> B]
    ELSE LET fresh_rankings == Simple_get_rankings(S, L, T3, DateOf(t), feed, TRUE, TRUE)
         IN  [forced |-> TRUE, cache |-> fresh_rankings.cache,
              ledger |-> fresh_rankings.ledger, top3 |-> fresh_rankings.top3,
              backups |-> CycleBackup(fresh_rankings, B, t, L, T3, S, R)]

\* what a sweep at tick t has in front of it
NewestBackup(B, t) ==
    IF DOMAIN B = {} THEN "none"
    ELSE IF \A b \in DOMAIN B : t - b > DayLen THEN "old"
    ELSE "recent"

\* a ranking cycle of the application, with the snapshot it takes
SimpleCycle(feeds) ==
    \E feed \in feeds :
        \E res \in {Simple_get_rankings(simple_cache, ledger, top3, today, feed,
                                        TRUE, TRUE)} :
            /\ simple_cache' = res.cache
            /\ ledger' = res.ledger
            /\ top3' = res.top3
            /\ backups' = CycleBackup(res, backups, now, ledger, top3,
                                      simple_cache, rankings_cache)
            /\ last' = NoCall
            /\ UNCHANGED <<auxVars, now, guard, today, raceVars, rankings_cache,
                           daily_cache, matchup_cache, answer, served>>

\* success = run_daily_verification()
GuardSweep ==
    /\ guard.pc = "idle"
    /\ \E res \in {run_daily_verification(ledger, top3, simple_cache,
                                          rankings_cache, backups, now)} :
        /\ guard' = [pc |-> IF res.issues = {} THEN "exit" ELSE "fix",
                     success |-> res.issues = {},
                     issues |-> res.issues,
                     trace |-> <<"sweep", "snapshot">>,
                     today_absent |-> today \notin DOMAIN ledger,
                     newest_backup |-> NewestBackup(backups, now)]
        /\ backups' = res.backups
    /\ UNCHANGED <<auxVars, now, today, ledgerVars, last, raceVars, cacheVars>>

\* if not success: auto_fix_issues()
GuardAutoFix ==
    /\ guard.pc = "fix"
    /\ \E feed \in GuardFeeds :
        \E res \in {auto_fix_issues(simple_cache, ledger, top3, rankings_cache,
                                    backups, now, feed)} :
            /\ simple_cache' = res.cache
            /\ ledger' = res.ledger
            /\ top3' = res.top3
            /\ backups' = res.backups
            /\ guard' = [guard EXCEPT !.pc = "recheck",
                             !.trace = guard.trace \o
                                 (IF res.forced THEN <<"fix", "cycle">> ELSE <<"fix">>)]
    /\ UNCHANGED <<auxVars, now, today, last, raceVars, rankings_cache, daily_cache,
                   matchup_cache, answer, served>>

\* run_daily_verification() after the auto-fix; its result is not kept
GuardRecheck ==
    /\ guard.pc = "recheck"
    /\ \E res \in {run_daily_verification(ledger, top3, simple_cache,
                                          rankings_cache, backups, now)} :
        /\ guard' = [guard EXCEPT !.pc = "exit",
                         !.issues = res.issues,
                         !.trace = guard.trace \o <<"sweep", "snapshot">>,
                         !.today_absent = today \notin DOMAIN ledger,
                         !.newest_backup = NewestBackup(backups, now)]
        /\ backups' = res.backups
    /\ UNCHANGED <<auxVars, now, today, ledgerVars, last, raceVars, cacheVars>>

\* sys.exit(0 if success else 1)
GuardExit ==
    /\ guard.pc = "exit"
    /\ guard' = [guard EXCEPT !.pc = "done"]
    /\ UNCHANGED <<auxVars, now, today, backups, ledgerVars, last, raceVars, cacheVars>>

NextGuard ==
    \/ Tick
    \/ SimpleCycle(GuardFeeds)
    \/ GuardSweep
    \/ GuardAutoFix
    \/ GuardRecheck
    \/ GuardExit

SpecGuard == Init /\ [][NextGuard]_vars

\* a guard that has started is scheduled until it exits
SpecGuardLive == SpecGuard /\ WF_vars(GuardAutoFix \/ GuardRecheck \/ GuardExit)

(***************************************************************************)
(* The sweep over a ledger as it may be found on disk: written by          *)
(* _auto_record_predictions with the default threshold or with a lower     *)
(* min_score argument.                                                     *)
(***************************************************************************)
RecordAs ==
    /\ guard.pc = "idle"
    /\ \E table \in Tables : \E min_score \in {EliteFloor, MinScore} :
          \E res \in {auto_record_predictions(ledger, top3, today, table, min_score)} :
            /\ ledger' = res[1]
            /\ top3' = res[2]
    /\ UNCHANGED <<auxVars, now, today, last, raceVars, cacheVars, backups, guard>>

NextSweep ==
    \/ Tick
    \/ RecordAs
    \/ GuardSweep
    \/ GuardAutoFix
    \/ GuardRecheck
    \/ GuardExit

SpecSweep == Init /\ [][NextSweep]_vars

(***************************************************************************)
(* Recovery: DataBackupManager.emergency_recovery, and the operations that *)
(* run around it: ranking cycles, reconciliation of a recorded date (the   *)
(* box scores answer alike for all its players), snapshots and the clock.  *)
(* `last' records a recovery or a reconciliation and is NoCall after any   *)
(* other step.                                                             *)
(***************************************************************************)
\* faulty variant: the folders are scanned oldest first
emergency_recovery_oldest(L, B, target_date) ==
    LET holding == {t \in DOMAIN B : target_date \in DOMAIN B[t].prediction_history}
    IN  IF holding = {} \/ L = <<>> THEN <<L, "failed">>
        ELSE LET backup_folder == CHOOSE t \in holding : \A u \in holding : t <= u
             IN  <<Put(L, target_date, B[backup_folder].prediction_history[target_date]),
                   "recovered">>

\* faulty variant: a live ledger that cannot be read is taken as empty
emergency_recovery_creates(L, B, target_date) ==
    LET holding == {t \in DOMAIN B : target_date \in DOMAIN B[t].prediction_history}
    IN  IF holding = {} THEN <<L, "failed">>
        ELSE LET backup_folder == CHOOSE t \in holding : \A u \in holding : u <= t
             IN  <<Put(L, target_date, B[backup_folder].prediction_history[target_date]),
                   "recovered">>

\* emergency_recovery: <<ledger, outcome>>.  backup_folders.sort(reverse=True)
\* puts the newest folder first; opening a live ledger that was never
\* written raises inside the try of every folder.
emergency_recovery(L, B, target_date) ==
    LET holding == {t \in DOMAIN B : target_date \in DOMAIN B[t].prediction_history}
    IN  IF holding = {} \/ L = <<>> THEN <<L, "failed">>
        ELSE LET backup_folder == CHOOSE t \in holding : \A u \in holding : u <= t
             IN  <<Put(L, target_date, B[backup_folder].prediction_history[target_date]),
                   "recovered">>

Recover ==
    \E target_date \in Dates :
        \E res \in {emergency_recovery(ledger, backups, target_date)} :
            /\ ledger' = res[1]
            /\ last' = [NoCall EXCEPT !.op = "recover", !.date = target_date,
                                      !.returned = res[2]]
            /\ UNCHANGED <<auxVars, now, today, top3, backups, guard, raceVars, cacheVars>>

\* DataBackupManager.create_daily_backup() called on its own
Snapshot ==
    /\ backups' = create_daily_backup(backups, now, ledger, top3, simple_cache,
                                      rankings_cache)
    /\ last' = NoCall
    /\ UNCHANGED <<auxVars, now, today, ledgerVars, guard, raceVars, cacheVars>>

MaxSnapshots == 2

\* the model keeps at most MaxSnapshots folders
SnapshotRoom == now \in DOMAIN backups \/ Cardinality(DOMAIN backups) < MaxSnapshots

BackupResponses ==
    {NotListedResponse,
     [status |-> HttpOk, listed |-> TRUE, atBats |-> MaxAtBats, hits |-> 1]}

\* update_predictions_with_at_bats(game_date) for a recorded date
ReconcileDay ==
    \E d \in DOMAIN ledger : \E r \in BackupResponses :
        \E lookups \in {[p \in Pids(ledger[d]) |-> r]} :
            \E res \in {update_predictions_with_at_bats(ledger, top3, d, lookups)} :
                /\ ledger' = res[1]
                /\ top3' = res[2]
                /\ last' = Call("reconcile", d, <<>>, lookups, res)
                /\ UNCHANGED <<auxVars, guardVars, today, raceVars, cacheVars>>

NextBackup ==
    \/ Tick
    \/ (SnapshotRoom /\ SimpleCycle({feed \in GuardFeeds : feed.hot = {1}}))
    \/ ReconcileDay
    \/ (SnapshotRoom /\ Snapshot)
    \/ Recover

SpecBackup == Init /\ [][NextBackup]_vars

\* data/prediction_history.json is deleted or damaged outside the program:
\* open() or json.load() of the live ledger raises from then on
LedgerLost ==
    /\ ledger # <<>>
    /\ ledger' = <<>>
    /\ last' = [NoCall EXCEPT !.op = "lost"]
    /\ UNCHANGED <<auxVars, guardVars, today, top3, raceVars, cacheVars>>

\* recovery next to cycles, snapshots and the loss of the live ledger
NextRecovery ==
    \/ Tick
    \/ (SnapshotRoom /\ SimpleCycle({feed \in GuardFeeds : feed.hot = {1}}))
    \/ (SnapshotRoom /\ Snapshot)
    \/ LedgerLost
    \/ Recover

SpecRecovery == Init /\ [][NextRecovery]_vars

\* the operations of SpecBackup up to the first tick of the second day, and
\* the integrity sweep of the guard
NextOutcome ==
    \/ (now < DayLen /\ Tick)
    \/ (SnapshotRoom /\ SimpleCycle({feed \in GuardFeeds : feed.hot = {1}}))
    \/ ReconcileDay
    \/ (SnapshotRoom /\ Snapshot)
    \/ Recover
    \/ (SnapshotRoom /\ GuardSweep)

SpecOutcome == Init /\ [][NextOutcome]_vars

(***************************************************************************)
(* Provider requests: MLBDataFetcher._make_request.  Each attempt gets one *)
(* of the Responses; a wait is the argument of time.sleep in seconds.  A   *)
(* refresh of DataCache follows a request and sees the provider as the     *)
(* request found it.                                                       *)
(***************************************************************************)
MaxRetries == 3

RateLimitBase == 5

Responses == {"200", "404", "429", "500", "ConnectionError", "Timeout"}

\* faulty variant: a rate-limited last attempt sleeps as well
AttemptSleepsAlways(attempt, response) ==
    IF response = "200" THEN [done |-> TRUE, result |-> "data", wait |-> 0]
    ELSE IF response = "429"
    THEN [done |-> FALSE, result |-> "None", wait |-> (2 ^ attempt) * RateLimitBase]
    ELSE IF response \in {"ConnectionError", "Timeout"} /\ attempt < MaxRetries - 1
    THEN [done |-> FALSE, result |-> "None", wait |-> 2 ^ attempt]
    ELSE [done |-> TRUE, result |-> "None", wait |-> 0]

\* one pass of the retry loop: whether _make_request returns, what it returns
\* and how long it sleeps before the next attempt.  A 429 on the last attempt
\* and a 5xx reach raise_for_status, whose HTTPError the outer except turns
\* into None.
Attempt(attempt, response) ==
    IF response = "200" THEN [done |-> TRUE, result |-> "data", wait |-> 0]
    ELSE IF response = "429" /\ attempt < MaxRetries - 1
    THEN [done |-> FALSE, result |-> "None", wait |-> (2 ^ attempt) * RateLimitBase]
    ELSE IF response \in {"ConnectionError", "Timeout"} /\ attempt < MaxRetries - 1
    THEN [done |-> FALSE, result |-> "None", wait |-> 2 ^ attempt]
    ELSE [done |-> TRUE, result |-> "None", wait |-> 0]

\* _make_request is called
MakeRequest ==
    /\ request.pc = "idle"
    /\ request' = [NoRequest EXCEPT !.pc = "trying"]
    /\ UNCHANGED <<today, ledgerVars, last, raceVars, cacheVars, guardVars, score, slow, tiers, ranked, store>>

\* self.session.get(url, params=params, timeout=15) and what follows it; the
\* for loop ends after max_retries passes
Respond ==
    /\ request.pc = "trying"
    /\ \E response \in Responses :
        \E res \in {Attempt(request.attempt, response)} :
            request' =
                IF res.done \/ request.attempt + 1 >= MaxRetries
                THEN [request EXCEPT !.pc = "returned", !.result = res.result,
                                     !.waits = IF res.wait > 0
                                               THEN Append(request.waits, res.wait)
                                               ELSE request.waits]
                ELSE [request EXCEPT !.attempt = request.attempt + 1,
                                     !.waits = Append(request.waits, res.wait)]
    /\ UNCHANGED <<today, ledgerVars, last, raceVars, cacheVars, guardVars, score, slow, tiers, ranked, store>>

\* DataCache.get_rankings(force_refresh=True) around the request
Refresh ==
    /\ request.pc = "returned"
    /\ \E feed \in IF request.result = "data" THEN GuardFeeds \ {ProviderDown}
                    ELSE {ProviderDown} :
        \E res \in {DataCache_get_rankings(rankings_cache, ledger, top3, today,
                                           feed, TRUE)} :
            /\ rankings_cache' = res.cache
            /\ ledger' = res.ledger
            /\ top3' = res.top3
            /\ answer' = Answer("DataCache", feed, res.df)
            /\ served' = IF res.df # <<>> THEN served \cup {"DataCache"} ELSE served
    /\ request' = [request EXCEPT !.pc = "idle"]
    /\ UNCHANGED <<today, last, raceVars, simple_cache, daily_cache, matchup_cache,
                   guardVars, score, slow, tiers, ranked, store>>

NextRequest == MakeRequest \/ Respond \/ Refresh

SpecRequest == Init /\ [][NextRequest]_vars

(***************************************************************************)
(* The scoring engine: SimpleMLBRankings.calculate_hit_score and           *)
(* RankingCalculator.calculate_hit_score.  Averages are in thousandths     *)
(* (0.238 is 238); a float the code computes is the exact fraction         *)
(* <<numerator, denominator>>, and round(x, 3) gives thousandths.  A row   *)
(* without a pitcher_oba has Null there; player_splits is what             *)
(* get_player_splits returns, the season average under both keys.          *)
(***************************************************************************)
LeagueAvg == 238

DefaultOba == 250

WeightedGames == 35

HitsPerGame100 == 75

ExpectedHits100 == 2625

Times(x, y) == <<x[1] * y[1], x[2] * y[2]>>

RECURSIVE Decimals(_, _, _, _)
\* long division: the first `places' decimals of r / d appended to q
Decimals(q, r, d, places) ==
    IF places = 0 THEN <<q, r>>
    ELSE Decimals(q * 10 + (r * 10) \div d, (r * 10) % d, d, places - 1)

\* faulty variant: the decimals after the third are cut off
Round3Truncates(x) ==
    Decimals(x[1] \div x[2], x[1] % x[2], x[2], 3)[1]

\* round(x, 3) in thousandths
Round3(x) ==
    LET qr == Decimals(x[1] \div x[2], x[1] % x[2], x[2], 3)
    IN  IF 2 * qr[2] >= x[2] THEN qr[1] + 1 ELSE qr[1]

HitLines == {<<0, 0, 0>>, <<1, 1, 1>>, <<3, 6, 10>>, <<4, 8, 10>>}

Averages == {0, 200, LeagueAvg, 300}

PitcherObas == {Null, 0, LeagueAvg, DefaultOba, 270}

\* get_player_splits
get_player_splits(batting_avg) == [vs_left |-> batting_avg, vs_right |-> batting_avg]

Rows ==
    {[last_5 |-> h[1], last_10 |-> h[2], last_20 |-> h[3], batting_avg |-> b,
      pitcher_oba |-> o, pitcher_hand |-> hand, player_splits |-> get_player_splits(b)] :
        h \in HitLines, b \in Averages, o \in PitcherObas, hand \in {"L", "R"}}

\* SimpleMLBRankings.calculate_hit_score
Simple_calculate_hit_score(player_data) ==
    LET hotness == <<(player_data.last_5 + player_data.last_10 + player_data.last_20) * 100,
                     ExpectedHits100>>
        pitcher_factor == <<IF player_data.pitcher_oba = Null THEN DefaultOba
                            ELSE player_data.pitcher_oba, LeagueAvg>>
        skill_factor == <<player_data.batting_avg, LeagueAvg>>
    IN  [class |-> "SimpleMLBRankings", row |-> player_data, hotness |-> hotness,
         pitcher_factor |-> pitcher_factor, skill_factor |-> skill_factor,
         hit_score |-> Round3(Times(Times(hotness, pitcher_factor), skill_factor))]

\* RankingCalculator.calculate_hit_score
Calculator_calculate_hit_score(row) ==
    LET weighted_hits == row.last_5 + row.last_10 + row.last_20
        expected_hits == WeightedGames * HitsPerGame100
        hotness_factor == <<weighted_hits * 100, expected_hits>>
        pitcher_oba == IF row.pitcher_oba = Null THEN LeagueAvg ELSE row.pitcher_oba
        pitcher_factor == <<pitcher_oba, LeagueAvg>>
        split_avg == IF row.pitcher_hand = "L" THEN row.player_splits.vs_left
                     ELSE row.player_splits.vs_right
        splits_factor == <<split_avg, LeagueAvg>>
    IN  [class |-> "RankingCalculator", row |-> row, hotness |-> hotness_factor,
         pitcher_factor |-> pitcher_factor, skill_factor |-> splits_factor,
         hit_score |-> Round3(Times(Times(hotness_factor, pitcher_factor), splits_factor))]

ScoreSimple ==
    /\ \E player_data \in Rows : score' = Simple_calculate_hit_score(player_data)
    /\ UNCHANGED <<today, ledgerVars, last, raceVars, cacheVars, guardVars, request, slow, tiers, ranked, store>>

ScoreCalculator ==
    /\ \E row \in Rows : score' = Calculator_calculate_hit_score(row)
    /\ UNCHANGED <<today, ledgerVars, last, raceVars, cacheVars, guardVars, request, slow, tiers, ranked, store>>

NextScore == ScoreSimple \/ ScoreCalculator

SpecScore == Init /\ [][NextScore]_vars

(***************************************************************************)
(* Scoring from the provider's answers.  Each of the three inputs of a row *)
(* is either answered or missing:        the season line of the batter,    *)
(* the game log of the batter, the season line of the opposing pitcher.    *)
(***************************************************************************)
NoLine == [answered |-> FALSE, avg |-> 0, gamesPlayed |-> 0, hits |-> <<0, 0, 0>>]

SeasonLines ==
    {NoLine} \cup {[NoLine EXCEPT !.answered = TRUE, !.avg = a, !.gamesPlayed = 5] :
                       a \in {200, LeagueAvg, 300}}

GameLogs ==
    {NoLine} \cup {[NoLine EXCEPT !.answered = TRUE, !.hits = h] :
                       h \in {g \in HitLines : g[1] > 0}}

PitcherLines == {Null, 220, DefaultOba, 270}

\* SimpleMLBRankings.get_player_season_stats
get_player_season_stats(season) ==
    IF ~season.answered THEN [batting_avg |-> LeagueAvg, games |-> 0]
    ELSE [batting_avg |-> season.avg, games |-> season.gamesPlayed]

\* SimpleMLBRankings.get_player_recent_games, MLBDataFetcher.get_player_recent_stats
get_player_recent_games(log) ==
    IF ~log.answered THEN [last_5 |-> 0, last_10 |-> 0, last_20 |-> 0]
    ELSE [last_5 |-> log.hits[1], last_10 |-> log.hits[2], last_20 |-> log.hits[3]]

\* SimpleMLBRankings.get_pitcher_oba
get_pitcher_oba(pitcher) == IF pitcher = Null THEN DefaultOba ELSE pitcher

\* what the loops keep of a player: the answers, whether a row was built,
\* and the scored row
Scored(res, season, log, pitcher) ==
    [class |-> res.class, row |-> res.row, hotness |-> res.hotness,
     pitcher_factor |-> res.pitcher_factor, skill_factor |-> res.skill_factor,
     hit_score |-> res.hit_score, listed |-> TRUE,
     season |-> season, log |-> log, pitcher |-> pitcher]

Skipped(class, season, log, pitcher) ==
    [class |-> class, row |-> <<>>, hotness |-> <<0, 1>>,
     pitcher_factor |-> <<0, 1>>, skill_factor |-> <<0, 1>>,
     hit_score |-> 0, listed |-> FALSE,
     season |-> season, log |-> log, pitcher |-> pitcher]

\* the body of the roster loop of generate_daily_rankings for one player
InputsSimple ==
    /\ \E season \in SeasonLines : \E log \in GameLogs : \E pitcher \in PitcherLines :
         LET season_stats == get_player_season_stats(season)
             recent_stats == get_player_recent_games(log)
             player_data == [last_5 |-> recent_stats.last_5,
                             last_10 |-> recent_stats.last_10,
                             last_20 |-> recent_stats.last_20,
                             batting_avg |-> season_stats.batting_avg,
                             pitcher_oba |-> get_pitcher_oba(pitcher),
                             pitcher_hand |-> "R",
                             player_splits |-> get_player_splits(season_stats.batting_avg)]
         IN  score' = IF season_stats.games > 0
                      THEN Scored(Simple_calculate_hit_score(player_data), season, log, pitcher)
                      ELSE Skipped("SimpleMLBRankings", season, log, pitcher)
    /\ UNCHANGED <<today, ledgerVars, last, raceVars, cacheVars, guardVars, request, slow, tiers, ranked, store>>

\* the body of the hitter loop of calculate_rankings for one player with a
\* matchup: get_player_splits answers None without a season average
InputsCalculator ==
    /\ \E season \in SeasonLines : \E log \in GameLogs : \E pitcher \in PitcherLines :
         LET hitter == get_player_recent_games(log)
             row == [last_5 |-> hitter.last_5,
                     last_10 |-> hitter.last_10,
                     last_20 |-> hitter.last_20,
                     batting_avg |-> season.avg,
                     pitcher_oba |-> pitcher,
                     pitcher_hand |-> "R",
                     player_splits |-> get_player_splits(season.avg)]
             player_splits_is_None == ~season.answered
         IN  score' = IF player_splits_is_None
                      THEN Skipped("RankingCalculator", season, log, pitcher)
                      ELSE Scored(Calculator_calculate_hit_score(row), season, log, pitcher)
    /\ UNCHANGED <<today, ledgerVars, last, raceVars, cacheVars, guardVars, request, slow, tiers, ranked, store>>

NextInputs == InputsSimple \/ InputsCalculator

SpecInputs == Init /\ [][NextInputs]_vars

(***************************************************************************)
(* Properties of the get-rankings entry points                             *)
(***************************************************************************)
\* the manager's cache files hold a payload of some age
PayloadExists(manager) ==
    CASE manager = "DataCache" ->
            rankings_cache.exists /\ rankings_cache.rankings # <<>>
      [] manager = "SimpleMLBRankings" ->
            simple_cache.exists /\ simple_cache.rankings # <<>>
      [] manager = "DailyCacheManager" ->
            /\ daily_cache.exists /\ daily_cache.player_stats # <<>>
            /\ matchup_cache.exists /\ matchup_cache.pitcher_matchups # {}
      [] OTHER -> FALSE

\* C19: a get-rankings call returns a ranked table or the explicit
\* empty/unavailable result, never an exception, and it returns the
\* unavailable result only when no payload of any age existed at the call
C19_UnavailableOnlyWithoutPayload ==
    [][answer'.manager \in {"DataCache", "SimpleMLBRankings", "DailyCacheManager"}
          => (answer'.table \/ ~PayloadExists(answer'.manager))]_vars

(***************************************************************************)
(* Properties of concurrent saves                                          *)
(***************************************************************************)
\* C25: whatever two savers and a reader do, a load returns a complete
\* payload, the previous one or one a saver wrote, never nothing and
\* never a mixture
C25_LoadsCompletePayload ==
    store.loaded.made =>
        (store.loaded.found /\ \E w \in {0} \cup Callers : store.loaded.data = PayloadOf(w))

(***************************************************************************)
(* Properties of a ranked table                                            *)
(***************************************************************************)
\* the teams with a game today against an announced pitcher
TeamsWithMatchup(feed) == (Teams \ feed.idle) \ feed.unannounced

\* C22: every row of a ranked table is a player of a team that has a
\* matchup today; players of a team without a game or without a known
\* opposing pitcher are dropped
C22_RowsHaveMatchup ==
    ranked.class # "none" =>
        \A i \in 1..Len(ranked.df) :
            TeamOf(ranked.df[i].player_id) \in TeamsWithMatchup(ranked.feed)

\* C23: a ranked table is in descending order of score, and rows of equal
\* score are in ascending order of player id
C23_SortedWithIdTieBreak ==
    ranked.class # "none" =>
        \A i, j \in 1..Len(ranked.df) :
            i < j => \/ ranked.df[i].hit_score > ranked.df[j].hit_score
                     \/ /\ ranked.df[i].hit_score = ranked.df[j].hit_score
                        /\ ranked.df[i].player_id < ranked.df[j].player_id

\* C24: when the unfiltered table has rows and no row is a confirmed
\* starter, the unfiltered table is returned and cached
C24_FilterNeverEmpties ==
    (/\ ranked.class = "SimpleMLBRankings" /\ ranked.all_players # <<>>
     /\ filter_active_players(ranked.all_players, ranked.feed) = <<>>) =>
        (ranked.df = ranked.all_players /\ simple_cache.rankings = ranked.all_players)

(***************************************************************************)
(* Properties of the fast partition                                        *)
(***************************************************************************)
\* the call looked at a fast cache last refreshed at tiers.call.since and
\* was not told to refresh it
FastRead ==
    /\ tiers.call.op # "none" /\ tiers.call.since.set /\ ~tiers.call.force_matchups
    /\ (tiers.call.op = "get_complete_rankings" =>
            (daily_cache.exists /\ daily_cache.player_stats # <<>>))

\* C21: a fast cache is fresh until the top of the hour after its last
\* refresh; an access in the 10 minutes after that hour boundary is still
\* served from the cached payload; from the end of the grace window on an
\* access refetches
C21_FastGraceWindow ==
    FastRead =>
        LET top == NextHour(tiers.call.since)
            at == Minutes(TimeNow)
        IN  /\ at < top + GraceMinutes => ~tiers.call.expired_matchups
            /\ at >= top + GraceMinutes => tiers.call.expired_matchups

(***************************************************************************)
(* Properties of the slow partition                                        *)
(***************************************************************************)
\* the staleness rule of an access to a partition refreshed on date
\* slow.access.since of the reference zone
StalenessRule ==
    (slow.access.made /\ slow.access.since > 0) =>
        slow.access.expired = (/\ slow.access.date > slow.access.since
                               /\ slow.access.hour >= BoundaryHour)

\* C20: without a forced refresh the slow partition is refreshed at most
\* once per calendar day of the reference zone; a partition refreshed on
\* date D is not expired on D, not expired on a later date before 03:00,
\* and expired at the first access at or after 03:00 of a later date
C20_SlowStaleness == ~slow.twice /\ StalenessRule

\* the same on a host whose zone is the reference zone
C20_InReferenceZone == (slow.zone = 0) => C20_SlowStaleness

\* in the reference zone: an access at 03:00 of the day after the refresh
C20_ReferenceWitness ==
    /\ slow.zone = 0 /\ slow.access.made /\ slow.access.expired
    /\ slow.access.since > 0 /\ slow.access.date = slow.access.since + 1
    /\ slow.access.hour = BoundaryHour

(***************************************************************************)
(* Properties of the scoring engine                                        *)
(***************************************************************************)
\* 26.25 * 0.238 * 0.238 in millionths
ScoreDivisor == (ExpectedHits100 * LeagueAvg * LeagueAvg) \div 100

WeightedHits(row) == row.last_5 + row.last_10 + row.last_20

\* x = n / d as fractions
Equals(x, n, d) == x[1] * d = n * x[2]

\* C17: for a row with all its stats, the three factors are
\* (last5 + last10 + last20) / 26.25, pitcher OBA / 0.238 and batting
\* average / 0.238, none is negative, the hit score is their product rounded
\* to 3 decimals, and the row 3, 6, 10, 0.300, 0.270 scores 1.035
C17_HitScoreFormula ==
    (score.class # "none" /\ score.row.pitcher_oba # Null) =>
        LET row == score.row
            exact == 1000 * WeightedHits(row) * row.pitcher_oba * row.batting_avg
            off == exact - score.hit_score * ScoreDivisor
        IN  /\ Equals(score.hotness, WeightedHits(row) * 100, ExpectedHits100)
            /\ Equals(score.pitcher_factor, row.pitcher_oba, LeagueAvg)
            /\ Equals(score.skill_factor, row.batting_avg, LeagueAvg)
            /\ score.hotness[1] >= 0 /\ score.pitcher_factor[1] >= 0
            /\ score.skill_factor[1] >= 0
            /\ 2 * off <= ScoreDivisor /\ 2 * off >= -ScoreDivisor
            /\ (WeightedHits(row) = 19 /\ row.batting_avg = 300 /\ row.pitcher_oba = 270)
                   => score.hit_score = 1035

C17_Witness ==
    /\ score.class = "RankingCalculator"
    /\ WeightedHits(score.row) = 19
    /\ score.row.batting_avg = 300 /\ score.row.pitcher_oba = 270
    /\ score.hit_score = 1035

\* C18: a row without a pitcher OBA is scored with the pitcher factor
\* 0.250 / 0.238
C18_MissingObaFactor ==
    (score.class # "none" /\ score.row.pitcher_oba = Null) =>
        Equals(score.pitcher_factor, DefaultOba, LeagueAvg)

\* C29: a get_complete_rankings call stamps a partition only when it has
\* replaced the payload with one fetched from a reachable provider (a
\* refresh that failed leaves the stamp as it was), and a partition that
\* was refreshed is not expired at the instant of the refresh
C29_StampIffReplaced ==
    tiers.call.op = "get_complete_rankings" =>
        /\ tiers.call.daily_fetched => tiers.call.up
        /\ tiers.call.matchup_fetched => tiers.call.up
        /\ (~tiers.call.up /\ (tiers.call.force_matchups \/ tiers.call.expired_matchups))
               => tiers.matchup_stamp = tiers.call.since
        /\ tiers.call.daily_fetched =>
               ~is_daily_cache_expired(tiers.daily_stamp, tiers.date, tiers.hour)
        /\ tiers.call.matchup_fetched =>
               ~is_matchup_cache_expired(tiers.matchup_stamp, TimeNow)

RefreshesSlow(call) == call.force_daily \/ call.expired_daily

RefreshesFast(call) == call.force_matchups \/ call.expired_matchups

\* C30: a get_complete_rankings call that refreshes the slow partition while
\* the fast one is neither expired nor forced leaves the fast payload and
\* the fast timestamp unchanged, and a call that refreshes only the fast
\* partition leaves the slow payload and the slow timestamp unchanged
C30_PartitionsIndependent ==
    [][tiers'.call.op = "get_complete_rankings" =>
          /\ (RefreshesSlow(tiers'.call) /\ ~RefreshesFast(tiers'.call)) =>
                 /\ matchup_cache' = matchup_cache
                 /\ tiers'.matchup_stamp = tiers.matchup_stamp
          /\ (RefreshesFast(tiers'.call) /\ ~RefreshesSlow(tiers'.call)) =>
                 /\ daily_cache' = daily_cache
                 /\ tiers'.daily_stamp = tiers.daily_stamp]_vars

\* a forced refresh of the slow partition alone has fetched the player data
\* later than the matchups were stamped
C30_Witness ==
    /\ tiers.call.op = "get_complete_rankings"
    /\ tiers.call.daily_fetched /\ ~RefreshesFast(tiers.call)
    /\ matchup_cache.exists /\ tiers.matchup_stamp.set
    /\ Minutes(tiers.matchup_stamp) < Minutes(TimeNow)

ReadOnlyCall(call) ==
    \/ call.op = "get_cache_status"
    \/ /\ call.op \in {"get_complete_rankings", "get_rankings"}
       /\ ~RefreshesSlow(call) /\ ~RefreshesFast(call)

\* C31: a get-ranked-table call without a force flag on unexpired payloads,
\* and a get_cache_status call in any state, leave the cache payloads, the
\* update stamps, the ledger and the top-3 store unchanged
C31_QueriesDoNotMutate ==
    [][ReadOnlyCall(tiers'.call) =>
          /\ daily_cache' = daily_cache /\ matchup_cache' = matchup_cache
          /\ rankings_cache' = rankings_cache /\ simple_cache' = simple_cache
          /\ tiers'.daily_stamp = tiers.daily_stamp
          /\ tiers'.matchup_stamp = tiers.matchup_stamp
          /\ tiers'.data_stamp = tiers.data_stamp
          /\ ledger' = ledger /\ top3' = top3]_vars

\* an unforced call at a later minute of the hour of the last refresh
C31_Witness ==
    /\ tiers.call.op = "get_complete_rankings"
    /\ ~RefreshesSlow(tiers.call) /\ ~RefreshesFast(tiers.call)
    /\ daily_cache.exists /\ matchup_cache.exists
    /\ Minutes(tiers.matchup_stamp) < Minutes(TimeNow)

MissingInputs(sc) ==
    (IF ~sc.season.answered THEN {"season"} ELSE {}) \cup
    (IF ~sc.log.answered THEN {"log"} ELSE {}) \cup
    (IF sc.pitcher = Null THEN {"pitcher"} ELSE {})

\* C28: a row built for a player with exactly one scoring input missing has
\* for its affected factor is the neutral baseline (0.238 or 0.250 over 0.238 for the
\* pitcher, 0.238 over 0.238 for the average, and not zero for the recent
\* hits), and its hit score is not 0
C28_MissingInputIsNeutral ==
    (score.class # "none" /\ score.listed /\ Cardinality(MissingInputs(score)) = 1) =>
        /\ score.pitcher = Null =>
               \/ Equals(score.pitcher_factor, DefaultOba, LeagueAvg)
               \/ Equals(score.pitcher_factor, LeagueAvg, LeagueAvg)
        /\ ~score.season.answered => Equals(score.skill_factor, LeagueAvg, LeagueAvg)
        /\ ~score.log.answered => score.hotness[1] > 0
        /\ score.hit_score > 0

(***************************************************************************)
(* Properties of provider requests                                         *)
(***************************************************************************)
CachedRows == rankings_cache.exists /\ rankings_cache.rankings # <<>>

\* a request makes at most MaxRetries attempts, sleeps only between them,
\* returns data or None, and a refresh around a failed request answers with
\* the cached table when there is one
RequestBounded ==
    /\ request.attempt < MaxRetries
    /\ Len(request.waits) <= request.attempt
    /\ request.pc = "returned" => request.result \in {"data", "None"}
    /\ (request.pc = "idle" /\ request.result = "None") =>
           (~answer.up /\ (answer.table <=> CachedRows))

Reports(check, severity) ==
    \E issue \in guard.issues : issue.check = check /\ issue.severity = severity

OutcomeKnown(e) == e.actual_hits # Null \/ e.actual_at_bats # Null \/ e.got_hit # "null"

KnownOutcomes(L) ==
    UNION {{<<d, L[d][i].player_id>> : i \in {j \in 1..Len(L[d]) : OutcomeKnown(L[d][j])}} :
           d \in DOMAIN L}

UnknownOutcomes(L) ==
    UNION {{<<d, L[d][i].player_id>> : i \in {j \in 1..Len(L[d]) : ~OutcomeKnown(L[d][j])}} :
           d \in DOMAIN L}

\* C27: an entry that a recording or a cycle creates has unknown outcome
\* fields, and a step that takes an entry from unknown outcome fields to
\* known ones is a reconciliation: no cycle, recording, snapshot, sweep or
\* recovery fills them
C27_OutcomesOnlyByReconciliation ==
    [][/\ KnownOutcomes(ledger') \cap UnknownOutcomes(ledger) # {}
            => last'.op = "reconcile" /\ guard' = guard
       /\ KnownOutcomes(ledger') \ (KnownOutcomes(ledger) \cup UnknownOutcomes(ledger)) # {}
            => last'.op = "recover"]_vars

C27_Witness ==
    /\ last.op = "reconcile"
    /\ KnownOutcomes(ledger) # {}
    /\ backups # <<>>

\* C32: a sweep returns a verdict, and a check reports that it could not
\* run only for a file it opens itself: an unreadable ledger is reported by
\* check 1, which opens it, and does not make checks 2, 3 and 4 fail
C32_ChecksIndependent ==
    guard.trace = <<"sweep", "snapshot">> =>
        /\ guard.pc \in {"fix", "exit"}
        /\ guard.success = (guard.issues = {})
        /\ ~Reports(2, "ERROR")
        /\ Reports(3, "ERROR") => top3 = <<>>
        /\ ~Reports(4, "ERROR")

\* C33: a reconciliation of a recorded date in which no lookup reports
\* at-bats (the requests fail, or no box score lists the players) leaves the
\* date in the ledger with no entries, and a recording on a date that is in
\* the ledger with no entries is a no-op
C33_OutageEmptiesDate ==
    [][/\ (last'.op = "reconcile" /\ last'.returned = "counts" /\ last'.batting = <<>>)
            => (last'.date \in DOMAIN ledger' /\ ledger'[last'.date] = <<>>)
       /\ (last'.op = "record" /\ today \in DOMAIN ledger /\ ledger[today] = <<>>)
            => (last'.returned = "noop" /\ ledger' = ledger /\ top3' = top3)]_vars

\* a table with elite rows was offered for a date that a reconciliation had
\* emptied
C33_Witness ==
    /\ last.op = "record" /\ last.returned = "noop" /\ last.differs
    /\ today \in DOMAIN ledger /\ ledger[today] = <<>>

\* an entry without its outcome fields
WithoutOutcome(e) ==
    [e EXCEPT !.actual_hits = Null, !.actual_at_bats = Null, !.got_hit = "null"]

NothingThenWritten(first, second, d, later) ==
    /\ first[1] = ledger /\ first[2] = top3
    /\ d \in DOMAIN second[1]
    /\ Pids(second[1][d]) = Pids(ElitePlayers(later, MinScore))

\* C35: on a date that is not in the ledger, a recording of a table with no
\* row at or above the threshold writes neither the ledger nor the top-3
\* store, and a recording after it of a table with elite rows writes the
\* entries of those rows for the date
C35_EmptyTableWritesNothing ==
    /\ (last.op = "record" /\ last.returned = "empty") => today \notin DOMAIN ledger
    /\ today \notin DOMAIN ledger =>
          \A table \in Tables : \A later \in Tables :
              (/\ ElitePlayers(table, MinScore) = <<>>
               /\ ElitePlayers(later, MinScore) # <<>>) =>
                  LET data_first == DataCache_auto_record_predictions(ledger, top3, today,
                                                                       table)
                      data_second == DataCache_auto_record_predictions(
                                         data_first[1], data_first[2], today, later)
                      simple_first == Simple_auto_record_predictions(ledger, top3, today,
                                                                      table)
                      simple_second == Simple_auto_record_predictions(
                                           simple_first[1], simple_first[2], today, later)
                  IN  /\ NothingThenWritten(data_first, data_second, today, later)
                      /\ NothingThenWritten(simple_first, simple_second, today, later)
                      /\ today \in DOMAIN simple_second[2]

\* a recording has found no elite row
C35_Witness ==
    /\ last.op = "record" /\ last.returned = "empty"
    /\ today \notin DOMAIN ledger /\ today \notin DOMAIN top3

Holds(folder, d) == d \in DOMAIN folder.prediction_history

SameFields(pick, e) ==
    /\ pick.player_id = e.player_id
    /\ pick.hit_score = e.hit_score
    /\ pick.actual_hits = e.actual_hits
    /\ pick.actual_at_bats = e.actual_at_bats
    /\ pick.got_hit = e.got_hit

\* C37: after ranking cycles, reconciliations and recoveries every date with
\* entries in the ledger has a top-picks record, and every top pick of a date
\* is an entry of the ledger's date with the same score and outcome fields
C37_TopPicksConsistent ==
    /\ \A d \in DOMAIN ledger : ledger[d] # <<>> => d \in DOMAIN top3
    /\ \A d \in DOMAIN top3 : \A i \in 1..Len(top3[d]) :
           /\ d \in DOMAIN ledger
           /\ \E j \in 1..Len(ledger[d]) : SameFields(top3[d][i], ledger[d][j])

\* C38: a recovery of a date that no snapshot's ledger copy contains, or
\* while the live ledger cannot be read, returns False (it does not raise)
\* and leaves the live ledger and every snapshot as they were
C38_RecoveryFailsCleanly ==
    [][(/\ last'.op = "recover"
        /\ \/ \A t \in DOMAIN backups : ~Holds(backups[t], last'.date)
           \/ ledger = <<>>)
       => /\ last'.returned = "failed"
          /\ ledger' = ledger
          /\ backups' = backups]_vars

\* a recovery has failed on a lost ledger although a snapshot holds the date
C38_Witness ==
    /\ last.op = "recover" /\ last.returned = "failed"
    /\ ledger = <<>>
    /\ \E t \in DOMAIN backups : Holds(backups[t], last.date)

\* C26: a sweep over a ledger whose newest dates hold an entry below the
\* elite threshold of 2.5 reports a data-quality or integrity issue
C26_SweepFlagsNonElite ==
    (/\ guard.trace = <<"sweep", "snapshot">>
     /\ \E date_key \in Newest(ledger, QualityDates) :
            \E i \in 1..Len(ledger[date_key]) : ledger[date_key][i].hit_score < MinScore)
        => (Reports(4, "WARNING") \/ Reports(6, "WARNING"))

\* C11: a sweep that finds today's date absent from the ledger reports a
\* CRITICAL issue of check 1, and a sweep that finds the newest snapshot
\* older than 24 hours reports a WARNING of check 5 and no CRITICAL issue of
\* check 5
C11_SweepSeverities ==
    guard.trace # <<>> =>
        /\ guard.today_absent => Reports(1, "CRITICAL")
        /\ guard.newest_backup = "old" =>
               Reports(5, "WARNING") /\ ~Reports(5, "CRITICAL")

C11_Witness ==
    /\ guard.trace # <<>>
    /\ guard.today_absent
    /\ guard.newest_backup = "old"
    /\ ledger # <<>>

SweepSteps == <<"sweep", "snapshot">>

RepairSteps == {<<"fix">>, <<"fix", "cycle">>}

\* the steps a run of the guard has taken are those of the protocol
GuardOrdering ==
    /\ guard.pc = "idle" => guard.trace = <<>>
    /\ guard.pc = "fix" => ~guard.success /\ guard.trace = SweepSteps
    /\ guard.pc = "recheck" =>
           ~guard.success /\ \E r \in RepairSteps : guard.trace = SweepSteps \o r
    /\ guard.pc \in {"exit", "done"} =>
           IF guard.success THEN guard.trace = SweepSteps
           ELSE \E r \in RepairSteps : guard.trace = SweepSteps \o r \o SweepSteps

\* the auto-repair pass forces a ranking cycle exactly when today's ledger
\* entry is missing
GuardRepair ==
    (guard.pc = "fix" /\ guard'.pc = "recheck") =>
        (guard'.trace = SweepSteps \o <<"fix", "cycle">>  <=>  today \notin DOMAIN ledger)

\* C12: a first sweep with an issue is followed by its snapshot, one
\* auto-repair pass (with a forced ranking cycle exactly when today's ledger
\* entry is missing) and one more sweep; a first sweep without an issue is
\* followed by neither; and every run that has started exits
C12_GuardProtocol ==
    /\ []GuardOrdering
    /\ [][GuardRepair]_vars
    /\ (guard.pc # "idle") ~> (guard.pc = "done")

C12_Witness ==
    /\ guard.pc = "done"
    /\ ~guard.success
    /\ guard.trace = SweepSteps \o <<"fix", "cycle">> \o SweepSteps
    /\ today \in DOMAIN ledger

C12_CleanRun == guard.pc = "done" /\ guard.success

(***************************************************************************)
(* Properties of snapshots and recovery                                    *)
(***************************************************************************)
Holding(d) == {t \in DOMAIN backups : d \in DOMAIN backups[t].prediction_history}

NewestHolding(d) == CHOOSE t \in Holding(d) : \A u \in Holding(d) : u <= t

\* C13: after a successful recovery of a date the live ledger holds, for
\* that date, the entries of the newest snapshot whose ledger copy contains
\* the date
C13_RecoversFromNewest ==
    (last.op = "recover" /\ last.returned = "recovered") =>
        /\ Holding(last.date) # {}
        /\ last.date \in DOMAIN ledger
        /\ ledger[last.date] = backups[NewestHolding(last.date)].prediction_history[last.date]

\* a recovery that had two snapshots with different entries of the date to
\* choose from
C13_Witness ==
    /\ last.op = "recover" /\ last.returned = "recovered"
    /\ \E t \in Holding(last.date) :
           /\ t < NewestHolding(last.date)
           /\ backups[t].prediction_history[last.date] # ledger[last.date]

\* C14: a recovery leaves every entry the live ledger already holds as it
\* is, those of the target date included
C14_RecoveryMerges ==
    [][(last'.op = "recover") =>
           \A d \in DOMAIN ledger :
               /\ d \in DOMAIN ledger'
               /\ \A i \in 1..Len(ledger[d]) :
                      /\ HasPid(ledger'[d], ledger[d][i].player_id)
                      /\ EntryOf(ledger'[d], ledger[d][i].player_id) = ledger[d][i]]_vars

\* C15: the files of a snapshot folder never change once the folder exists
C15_SnapshotsImmutable ==
    [][\A t \in DOMAIN backups : t \in DOMAIN backups' /\ backups'[t] = backups[t]]_vars

(***************************************************************************)
(* Properties of recordIfAbsent                                            *)
(***************************************************************************)
\* C1 as stated: a record call that directly follows a record call for the
\* same date leaves the ledger as the first call left it, whatever the two
\* tables are.
C1_SecondRecordIsNoOp ==
    [][(last.op = "record" /\ last'.op = "record" /\ last'.date = last.date)
          => ledger' = ledger]_vars

\* C1 amended: a record call that follows a record call for the same date
\* which left the date in the ledger does not change the ledger.
C1_FirstWriteWins ==
    [][(/\ last.op = "record" /\ last'.op = "record" /\ last'.date = last.date
        /\ last'.date \in DOMAIN ledger)
          => ledger' = ledger]_vars

\* a record call for a date that a record call had written returned
\* without writing, although the elite rows of its table are not the
\* players recorded for the date
C1_Witness ==
    /\ last.op = "record"
    /\ last.returned = "noop"
    /\ last.differs
    /\ \A i \in 1..Len(ledger[last.date]) : ledger[last.date][i].got_hit = "null"

\* C6: the call that writes a date writes one entry for each row of its
\* table with hit score >= 2.5, with that row's score, and no other entry.
C6_WritesExactlyEliteRows ==
    (last.op = "record" /\ last.returned = "wrote") =>
        /\ last.date \in DOMAIN ledger
        /\ \A i \in 1..Len(last.table) :
              (last.table[i].hit_score >= MinScore)
                  <=> HasPid(ledger[last.date], last.table[i].player_id)
        /\ \A i \in 1..Len(ledger[last.date]) :
              \E j \in 1..Len(last.table) :
                  /\ last.table[j].player_id = ledger[last.date][i].player_id
                  /\ last.table[j].hit_score = ledger[last.date][i].hit_score
        /\ Cardinality(Pids(ledger[last.date])) = Len(ledger[last.date])

\* a write from a table with a row exactly at 2.5, a row above and a row
\* just below
C6_Witness ==
    /\ last.op = "record"
    /\ last.returned = "wrote"
    /\ \E i, j, k \in 1..Len(last.table) :
          /\ last.table[i].hit_score = MinScore
          /\ last.table[j].hit_score > MinScore
          /\ last.table[k].hit_score < MinScore

\* the picks of date d are the min(TopN, n) highest-scoring of the n entries
\* of the date, ranked 1.. in descending score
IsTopOf(picks, entries) ==
    /\ Len(picks) = (IF Len(entries) < TopN THEN Len(entries) ELSE TopN)
    /\ \A i \in 1..Len(picks) :
          /\ picks[i].rank = i
          /\ \E j \in 1..Len(entries) :
                /\ entries[j].player_id = picks[i].player_id
                /\ entries[j].hit_score = picks[i].hit_score
    /\ \A i, j \in 1..Len(picks) :
          /\ i < j => picks[i].hit_score >= picks[j].hit_score
          /\ i # j => picks[i].player_id # picks[j].player_id
    /\ \A j \in 1..Len(entries) :
          ~HasPid(picks, entries[j].player_id) =>
              \A i \in 1..Len(picks) : picks[i].hit_score >= entries[j].hit_score

\* C7: when a record call has written the date, the top picks of the date
\* exist and are the min(3, n) highest-scoring entries, ranked 1..min(3, n).
C7_TopPicksDerivedOnWrite ==
    (last.op = "record" /\ last.returned = "wrote") =>
        /\ last.date \in DOMAIN top3
        /\ IsTopOf(top3[last.date], ledger[last.date])

(***************************************************************************)
(* Properties of reconciliation                                            *)
(***************************************************************************)
\* C2: with the box-score answers fixed, reconciling a date a second time
\* leaves the ledger and the top picks as the first reconciliation left
\* them.
C2_ReconciliationIdempotent ==
    [][(/\ last.op = "reconcile" /\ last.returned = "counts"
        /\ last'.op = "reconcile" /\ last'.returned = "counts"
        /\ last'.date = last.date
        /\ last'.batting = last.batting)
          => (ledger' = ledger /\ top3' = top3)]_vars

\* a date with top picks was reconciled twice in a row with the same
\* answers, after the first run had removed players
C2_Witness ==
    /\ last.op = "reconcile"
    /\ last.repeat
    /\ last.returned = "counts"
    /\ last.verified_count >= TopN
    /\ \E i \in 1..Len(ledger[last.date]) : ledger[last.date][i].rank > i
    /\ last.date \in DOMAIN top3

\* C9: reconciliation keeps an entry exactly when the lookup for its
\* player reports at-bats > 0; a kept entry gets actual_hits and
\* actual_at_bats from the lookup and got_hit = (hits > 0); the others are
\* dropped.
C9_KeptIffAtBats ==
    (last.op = "reconcile" /\ last.returned = "counts") =>
        /\ Pids(ledger[last.date]) = DOMAIN last.batting
        /\ Len(ledger[last.date]) = Cardinality(DOMAIN last.batting)
        /\ \A i \in 1..Len(ledger[last.date]) :
              LET e == ledger[last.date][i]
                  r == last.batting[e.player_id]
              IN  /\ e.actual_hits = r.hits
                  /\ e.actual_at_bats = r.atBats
                  /\ e.got_hit = BoolStr(r.hits > 0)

\* a reconciliation dropped an entry and kept one with a hit and one
\* without
C9_Witness ==
    /\ last.op = "reconcile"
    /\ last.removed_count > 0
    /\ last.date \in DOMAIN ledger
    /\ \E i, j \in 1..Len(ledger[last.date]) :
          /\ ledger[last.date][i].got_hit = "true"
          /\ ledger[last.date][i].actual_at_bats = MaxAtBats
          /\ ledger[last.date][j].got_hit = "false"
          /\ ledger[last.date][j].actual_hits = 0

\* C10: verified_count + removed_count is the number of entries the date
\* had before the run, and the date has exactly verified_count entries
\* after it.
C10_CountsAddUp ==
    (last.op = "reconcile" /\ last.returned = "counts") =>
        /\ last.verified_count + last.removed_count = last.entries_before
        /\ Len(ledger[last.date]) = last.verified_count

\* a run over all NumPlayers entries removed two and kept the others
C10_Witness ==
    /\ last.op = "reconcile"
    /\ last.returned = "counts"
    /\ last.entries_before = NumPlayers
    /\ last.removed_count = 2
    /\ last.verified_count = NumPlayers - 2

\* picks are the previous picks that are still among the verified entries,
\* in their previous order, then the best of the other verified entries in
\* descending score, min(TopN, number of verified entries) in all, ranked 1..
IsRecomputed(picks, previous, verified) ==
    LET survivors == SelectSeq(previous, LAMBDA e : HasPid(verified, e.player_id))
        k == IF Len(verified) < TopN THEN Len(verified) ELSE TopN
    IN  /\ Len(picks) = k
        /\ \A i \in 1..Len(picks) :
              /\ picks[i].rank = i
              /\ HasPid(verified, picks[i].player_id)
              /\ picks[i].hit_score = EntryOf(verified, picks[i].player_id).hit_score
        /\ \A i, j \in 1..Len(picks) : i # j => picks[i].player_id # picks[j].player_id
        /\ Len(survivors) <= Len(picks)
        /\ \A i \in 1..Len(survivors) : picks[i].player_id = survivors[i].player_id
        /\ \A i \in (Len(survivors) + 1)..Len(picks) :
              /\ \A j \in (i + 1)..Len(picks) : picks[i].hit_score >= picks[j].hit_score
              /\ \A j \in 1..Len(verified) :
                    ~HasPid(picks, verified[j].player_id) =>
                        picks[i].hit_score >= verified[j].hit_score

\* C8: after a reconciliation that removed players, the top picks of the
\* date exist and are the surviving previous picks in order, backfilled by
\* descending score to min(3, number of verified entries), ranked 1..k.
C8_TopPicksRecomputed ==
    [][(last'.op = "reconcile" /\ last'.returned = "counts" /\ last'.removed_count > 0)
          => /\ last'.date \in DOMAIN top3'
             /\ IsRecomputed(top3'[last'.date],
                             IF last'.date \in DOMAIN top3 THEN top3[last'.date] ELSE <<>>,
                             ledger'[last'.date])]_vars

(***************************************************************************)
(* Properties of concurrent first writes                                   *)
(***************************************************************************)
\* C5: of two concurrent record calls for the same date at most one writes
\* the entries of the date, and once both have returned, the entries are
\* those of the one that wrote and the other has returned as a no-op.
C5_FirstWritesSerialized ==
    /\ Cardinality({c \in Callers : callers[c].returned = "wrote"}) <= 1
    /\ (\A c \in Callers : callers[c].pc = "done") =>
          \A c \in Callers :
              callers[c].returned = "wrote" =>
                  /\ today \in DOMAIN ledger
                  /\ ledger[today] = callers[c].daily_predictions

(***************************************************************************)
(* Properties of the rankings caches                                       *)
(***************************************************************************)
\* the managers that keep cached data to fall back on when a refresh fails
TieredManagers == {"DailyCacheManager", "DataCache"}

\* C3: once a get-rankings call of a cache manager has returned a
\* non-empty table, a later call of it during which every provider request
\* fails returns a non-empty table.
C3_NeverUnavailableAfterSuccess ==
    (answer.manager \in TieredManagers /\ answer.before /\ ~answer.up)
        => answer.table

\* C4: a stored payload that holds data is replaced only by a payload that
\* holds data: a refresh that fails or comes back empty leaves it as it was.
C4_FailedRefreshKeepsPayload ==
    [][/\ (rankings_cache.rankings # <<>> /\ rankings_cache' # rankings_cache)
            => rankings_cache'.rankings # <<>>
       /\ (simple_cache.rankings # <<>> /\ simple_cache' # simple_cache)
            => simple_cache'.rankings # <<>>
       /\ (daily_cache.player_stats # <<>> /\ daily_cache' # daily_cache)
            => daily_cache'.player_stats # <<>>
       /\ (matchup_cache.pitcher_matchups # {} /\ matchup_cache' # matchup_cache)
            => matchup_cache'.pitcher_matchups # {}]_vars

====
